---- MODULE Spec2Model ----
(***************************************************************************)
(* Anonymous conference client: the per-conference key-exchange state      *)
(* machine (conference_manager.rs), the crypto primitives it uses          *)
(* (crypto.rs), the framing of relayed messages (connection_manager.rs)    *)
(* and the request/reply correlation of the state manager                  *)
(* (state_manager.rs).                                                     *)
(*                                                                         *)
(* Byte strings are modelled by their length and their parsed content.     *)
(* Rust's Option and Result are sequences of length 0 (None, Err) or 1     *)
(* (Some, Ok).                                                             *)
(***************************************************************************)
EXTENDS Integers, Sequences, FiniteSets, TLC

\* ------------------------------------------------------------------ bounds

\* Peers of the conference whose clients are modelled (all honest).
NPeers == 2
\* Width, in bits, of the modelled ephemeral keys and key parts.
KeyBits == 1
\* ConferenceRestructuring announcements the relay makes.
MaxRestructurings == 2
\* UIAction::SendMessage requests handled in a run.
MaxMsgs == 1
\* The last packet nonce a state manager assigns.
MaxNonce == 5
\* Server events the server sends without a request.
MaxUnsolicited == 2
\* Requests and server events in flight when the UI or the server adds one.
MaxInFlight == 1
\* Frames an adversary (the relay, or a member holding the keys) injects.
MaxInject == 1
\* Distinct IVs the random generator can return.
NumIVs == 1

\* ------------------------------------------------------- program constants

KEY_SIZE == 32
IV_SIZE == 12
TAG_SIZE == 16
SCALAR_BYTE_SIZE == 32

\* ----------------------------------------------------------- Option/Result

None == << >>
Some(x) == << x >>
is_some(o) == Len(o) = 1
unwrap(o) == o[1]
Err == << >>
Ok(x) == << x >>
is_ok(r) == Len(r) = 1

Peers == 1..NPeers
KeyValues == 0..(2^KeyBits - 1)
IVs == 1..NumIVs

\* ------------------------------------------------------------ byte strings

\* A byte string that is a sequence of 32-byte words followed by a tail of
\* fewer than 32 bytes (signed messages and user texts).
BytesLen(m) == SCALAR_BYTE_SIZE * Len(m.words) + m.tail.len

\* String::as_bytes().to_vec() of a user text shorter than 32 bytes.
TextBytes(id, len) == [words |-> << >>, tail |-> [id |-> id, len |-> len]]

\* The one text users send: "hi".
Texts == {TextBytes("hi", 2)}

\* A 32-byte key or key part as Vec<u8>.
KeyBytes(v) == [len |-> KEY_SIZE, value |-> v]

\* ------------------------------------------------------------ crypto.rs

\* Argon2 over (password, salt): 32 bytes, taken never to collide with an
\* XOR-negotiated key.
hash_password_with_salt(password, salt) == 2^KeyBits + 1 + 8 * password + salt

\* ChaCha20-Poly1305 seal of plain under (key, iv): the result is
\* Len(plain) + TAG_SIZE bytes and opens only under the same key and iv with
\* the tag intact.
Seal(key, iv, plain) == [key |-> key, iv |-> iv, tag |-> TRUE, plain |-> plain]

encrypt_message(message, key, iv) == [ciphertext |-> Seal(key, iv, message), iv |-> iv]

\* The iv of the EncryptionResult is not used.
decrypt_message_any_iv(key, encrypted_data) ==
    IF /\ encrypted_data.ciphertext.key = key
       /\ encrypted_data.ciphertext.tag
    THEN Ok(encrypted_data.ciphertext.plain)
    ELSE Err

decrypt_message(key, encrypted_data) ==
    IF /\ encrypted_data.ciphertext.key = key
       /\ encrypted_data.ciphertext.iv = encrypted_data.iv
       /\ encrypted_data.ciphertext.tag
    THEN Ok(encrypted_data.ciphertext.plain)
    ELSE Err

\* EncryptionResult::encode: iv followed by the ciphertext with its tag.
EncryptionResult_encode(er) ==
    [len |-> IV_SIZE + er.ciphertext.plain.len + TAG_SIZE,
     iv |-> er.iv, ciphertext |-> er.ciphertext]

\* An input of IV_SIZE + TAG_SIZE bytes is refused as well.
EncryptionResult_decode_longer(data) ==
    IF data.len <= IV_SIZE + TAG_SIZE
    THEN Err
    ELSE Ok([ciphertext |-> data.ciphertext, iv |-> data.iv])

EncryptionResult_decode(data) ==
    IF data.len < IV_SIZE + TAG_SIZE
    THEN Err
    ELSE Ok([ciphertext |-> data.ciphertext, iv |-> data.iv])

RECURSIVE XorBits(_, _, _)
XorBits(a, b, n) ==
    IF n = 0 THEN 0
    ELSE (((a % 2) + (b % 2)) % 2) + 2 * XorBits(a \div 2, b \div 2, n - 1)

\* key ^= part, byte by byte (the caller has checked part.len() == KEY_SIZE).
apply_ephemeral_key_part(key, part) == XorBits(key, part.value, KeyBits)

\* Ristretto255: a point is scalar * G; its compressed encoding is an
\* integer whose order is unrelated to the order of the scalars.
BasepointMul(scalar) == [scalar |-> scalar]
compress(point) == (3 * point.scalar) % 7
decompress(c) ==
    IF \E x \in 1..6 : (3 * x) % 7 = c
    THEN Some(BasepointMul(CHOOSE x \in 1..6 : (3 * x) % 7 = c))
    ELSE None

\* One 32-byte word of a bLSAG signature: pos 0 is the challenge, pos i the
\* i-th response, pos -1 the key image.  canon: the bytes are a canonical
\* scalar; decomp: the bytes decompress to a point.  alias says whether the
\* bytes of this signature also parse as the other kind.
SigWord(sig, pos, alias) ==
    [sig |-> sig, pos |-> pos,
     canon |-> (pos >= 0) \/ alias, decomp |-> (pos < 0) \/ alias]

NoSig == [signer |-> 0, index |-> 0, ring |-> << >>, msg |-> TextBytes("", 0), alias |-> FALSE]

\* BLSAG_COMPACT::sign
sign_message(private_key, personal_key_insertion_index, ring, message, alias) ==
    LET sig == [signer |-> private_key, index |-> personal_key_insertion_index,
                ring |-> ring, msg |-> message, alias |-> alias]
    IN [challenge |-> SigWord(sig, 0, alias),
        responses |-> [i \in 1..Len(ring) |-> SigWord(sig, i, alias)],
        key_image |-> SigWord(sig, -1, alias)]

\* BLSAG_COMPACT::verify: true exactly for the untampered output of sign over
\* this ring and this message by the holder of a ring member's private key.
verify_message(signature, ring, message) ==
    LET sig == signature.challenge.sig
    IN /\ sig.signer # 0
       /\ signature.challenge.pos = 0
       /\ Len(signature.responses) = Len(ring)
       /\ \A i \in 1..Len(signature.responses) :
             signature.responses[i].sig = sig /\ signature.responses[i].pos = i
       /\ signature.key_image.sig = sig
       /\ signature.key_image.pos = -1
       /\ sig.ring = ring
       /\ sig.msg = message
       /\ sig.index \in 0..(Len(ring) - 1)
       /\ ring[sig.index + 1] = BasepointMul(sig.signer)

\* ------------------------------------------------- conference_manager.rs

\* ClientToClientMessage
PublicKey(pubkey) == [type |-> "PublicKey", pubkey |-> pubkey]
EncryptionKeyPart(key_part) == [type |-> "EncryptionKeyPart", key_part |-> key_part]
TextMessage(message) == [type |-> "Message", message |-> message]

\* ClientToClientMessage::encode: the discriminator byte, then the body
\* (for Message a u32 big-endian length first).
ClientToClientMessage_encode(m) ==
    CASE m.type = "PublicKey" ->
           [len |-> 1 + KEY_SIZE, disc |-> 1, pubkey |-> m.pubkey]
      [] m.type = "EncryptionKeyPart" ->
           [len |-> 1 + m.key_part.len, disc |-> 2, key_part |-> m.key_part]
      [] m.type = "Message" ->
           [len |-> 5 + BytesLen(m.message), disc |-> 3,
            message_length |-> BytesLen(m.message), message |-> m.message]

\* constants.rs Message: what a conference manager hands to the state manager.
Message(conference, message, message_id) ==
    [conference |-> conference, message |-> message, message_id |-> message_id]

\* UIEvent
UIEvent_IncomingMessage(cid, message, valid) ==
    [type |-> "IncomingMessage", conference_id |-> cid, message |-> message,
     signature_valid |-> valid]
UIEvent_MessageError(cid, message_id) ==
    [type |-> "MessageError", conference_id |-> cid, message_id |-> message_id]
UIEvent_ConferenceRestructuring(cid, n) ==
    [type |-> "ConferenceRestructuring", conference_id |-> cid, number_of_peers |-> n]
UIEvent_ConferenceRestructuringFinished(cid) ==
    [type |-> "ConferenceRestructuringFinished", conference_id |-> cid]

\* What one handler of the manager does: the manager afterwards, the
\* Messages pushed to message_sender, the UIEvents pushed to
\* ui_event_sender, and whether the task panicked (then nothing was pushed:
\* no handler pushes before a point where it can panic).
Done(self, out, ui) == [self |-> self, out |-> out, ui |-> ui, panicked |-> FALSE]
Panic(self) == [self |-> self, out |-> << >>, ui |-> << >>, panicked |-> TRUE]

\* ConferenceManager::new.  message_sender / ui_event_sender hold whether the
\* receiving end of the channel is still alive.
ConferenceManager_new(conference_id, number_of_peers, initial_encryption_key, private_key) ==
    [conference_id |-> conference_id,
     number_of_peers |-> number_of_peers,
     initial_encryption_key |-> initial_encryption_key,
     message_sender |-> TRUE,
     ui_event_sender |-> TRUE,
     unsorted_public_keys |-> {compress(BasepointMul(private_key))},
     ring |-> None,
     ring_personal_key_index |-> None,
     personal_private_key |-> private_key,
     personal_public_key |-> BasepointMul(private_key),
     state |-> "Initial",
     ephemeral_key_parts |-> 0,
     new_ephemeral_key |-> 0,
     ephemeral_encryption_key |-> None]

\* UnboundedSender::send(..).await.unwrap() on ui_event_sender.
ui_send(self, event) ==
    IF self.ui_event_sender THEN Done(self, << >>, << event >>) ELSE Panic(self)

\* send_message with one key for every kind of frame: the newest the
\* manager holds.
send_message_newest_key(self, message, message_id, iv) ==
    LET key == IF is_some(self.ephemeral_encryption_key)
               THEN unwrap(self.ephemeral_encryption_key)
               ELSE self.initial_encryption_key
        encrypted_message == encrypt_message(ClientToClientMessage_encode(message), key, iv)
    IN IF self.message_sender
       THEN Done(self, << Message(self.conference_id,
                                  EncryptionResult_encode(encrypted_message),
                                  IF message.type = "Message" THEN message_id ELSE None) >>,
                 << >>)
       ELSE Panic(self)

send_message(self, message, message_id, iv) ==
    IF message.type \in {"PublicKey", "EncryptionKeyPart"}
    THEN LET encrypted_message ==
                 encrypt_message(ClientToClientMessage_encode(message),
                                 self.initial_encryption_key, iv)
         IN IF self.message_sender
            THEN Done(self, << Message(self.conference_id,
                                       EncryptionResult_encode(encrypted_message), None) >>,
                      << >>)
            ELSE Panic(self)
    ELSE IF ~is_some(self.ephemeral_encryption_key) \/ ~is_some(message_id)
         THEN Panic(self)
         ELSE LET encrypted_message ==
                      encrypt_message(ClientToClientMessage_encode(message),
                                      unwrap(self.ephemeral_encryption_key), iv)
              IN IF self.message_sender
                 THEN Done(self, << Message(self.conference_id,
                                            EncryptionResult_encode(encrypted_message),
                                            message_id) >>,
                           << >>)
                 ELSE Panic(self)

start_public_key_exchange(self, iv) ==
    send_message([self EXCEPT !.state = "PublicKeyExchange"],
                 PublicKey(compress(self.personal_public_key)), None, iv)

start_ephemeral_key_negotiation(self, iv) ==
    send_message([self EXCEPT !.state = "EncryptionKeyNegotiation"],
                 EncryptionKeyPart(KeyBytes(self.new_ephemeral_key)), None, iv)

\* The ring and the ephemeral key of the epoch before are given up as well.
initiate_conference_restructuring_forgets(self, new_number_of_peers, new_key, iv) ==
    start_public_key_exchange(
        [self EXCEPT !.number_of_peers = new_number_of_peers,
                     !.unsorted_public_keys = {compress(self.personal_public_key)},
                     !.ring = None,
                     !.ring_personal_key_index = None,
                     !.ephemeral_encryption_key = None,
                     !.new_ephemeral_key = new_key,
                     !.ephemeral_key_parts = 0],
        iv)

\* The set of keys is cleared and the own key is not put back.
initiate_conference_restructuring_cleared(self, new_number_of_peers, new_key, iv) ==
    start_public_key_exchange(
        [self EXCEPT !.number_of_peers = new_number_of_peers,
                     !.unsorted_public_keys = {},
                     !.new_ephemeral_key = new_key,
                     !.ephemeral_key_parts = 0],
        iv)

initiate_conference_restructuring(self, new_number_of_peers, new_key, iv) ==
    start_public_key_exchange(
        [self EXCEPT !.number_of_peers = new_number_of_peers,
                     !.unsorted_public_keys = {compress(self.personal_public_key)},
                     !.new_ephemeral_key = new_key,
                     !.ephemeral_key_parts = 0],
        iv)

\* sort_unstable of the compressed keys, ascending.
RECURSIVE SortAscending(_)
SortAscending(S) ==
    IF S = {} THEN << >>
    ELSE LET m == CHOOSE x \in S : \A y \in S : x <= y
         IN << m >> \o SortAscending(S \ {m})

\* iter().position(|key| key == k), 0-based.
Position(seq, k) == (CHOOSE i \in 1..Len(seq) : seq[i] = k) - 1

\* The ring as collected, the peer's own key first: no common order.
finish_public_key_exchange_own_first(self, iv) ==
    LET own == compress(self.personal_public_key)
        compressed_ring == << own >> \o SortAscending(self.unsorted_public_keys \ {own})
    IN IF \E i \in 1..Len(compressed_ring) : ~is_some(decompress(compressed_ring[i]))
       THEN Panic([self EXCEPT !.state = "PublicKeyExchangeFinished"])
       ELSE start_ephemeral_key_negotiation(
                [self EXCEPT !.state = "PublicKeyExchangeFinished",
                             !.ring_personal_key_index = Some(0),
                             !.ring = Some([i \in 1..Len(compressed_ring) |->
                                               unwrap(decompress(compressed_ring[i]))])],
                iv)

finish_public_key_exchange(self, iv) ==
    LET compressed_ring == SortAscending(self.unsorted_public_keys)
        index == Position(compressed_ring, compress(self.personal_public_key))
    IN IF \E i \in 1..Len(compressed_ring) : ~is_some(decompress(compressed_ring[i]))
       THEN Panic([self EXCEPT !.state = "PublicKeyExchangeFinished"])
       ELSE start_ephemeral_key_negotiation(
                [self EXCEPT !.state = "PublicKeyExchangeFinished",
                             !.ring_personal_key_index = Some(index),
                             !.ring = Some([i \in 1..Len(compressed_ring) |->
                                               unwrap(decompress(compressed_ring[i]))])],
                iv)

finish_conference_setup(self) ==
    ui_send([self EXCEPT !.state = "NormalOperation"],
            UIEvent_ConferenceRestructuringFinished(self.conference_id))

\* The signature followed by the message: challenge, responses, key image, text.
sign_message_bytes(self, message, alias) ==
    LET signature == sign_message(self.personal_private_key,
                                  unwrap(self.ring_personal_key_index),
                                  unwrap(self.ring), message, alias)
    IN [words |-> << signature.challenge >> \o signature.responses
                  \o << signature.key_image >> \o message.words,
        tail |-> message.tail]

\* Returns [panicked, value]: value is None, or Some of <<message, signature_valid>>.
check_message_signature(self, message) ==
    LET n == self.number_of_peers
        w == message.words
    IN IF BytesLen(message) < SCALAR_BYTE_SIZE + SCALAR_BYTE_SIZE * n + SCALAR_BYTE_SIZE
       THEN [panicked |-> FALSE, value |-> None]
       ELSE IF ~w[1].canon
       THEN [panicked |-> FALSE, value |-> None]
       ELSE IF \E i \in 2..(n + 1) : ~w[i].canon
       THEN [panicked |-> FALSE, value |-> None]
       ELSE IF ~w[n + 2].decomp
       THEN [panicked |-> FALSE, value |-> None]
       ELSE LET signature == [challenge |-> w[1],
                              responses |-> SubSeq(w, 2, n + 1),
                              key_image |-> w[n + 2]]
                rest == [words |-> SubSeq(w, n + 3, Len(w)), tail |-> message.tail]
            IN IF ~is_some(self.ring)
               THEN [panicked |-> TRUE, value |-> None]
               ELSE [panicked |-> FALSE,
                     value |-> Some(<< rest,
                                       verify_message(signature, unwrap(self.ring), rest) >>)]

\* A manager that holds an ephemeral key tries that key alone.
decrypt_message_helper_newest_only(self, message) ==
    LET decoded == EncryptionResult_decode(message)
    IN IF ~is_ok(decoded) THEN None
       ELSE LET key == IF is_some(self.ephemeral_encryption_key)
                       THEN unwrap(self.ephemeral_encryption_key)
                       ELSE self.initial_encryption_key
                opened == decrypt_message(key, unwrap(decoded))
            IN IF is_ok(opened) THEN Some(unwrap(opened)) ELSE None

decrypt_message_helper(self, message) ==
    LET decoded == EncryptionResult_decode(message)
    IN IF ~is_ok(decoded) THEN None
       ELSE LET encrypted_message == unwrap(decoded)
                with_initial == decrypt_message(self.initial_encryption_key, encrypted_message)
            IN IF is_some(self.ephemeral_encryption_key)
               THEN LET with_ephemeral ==
                            decrypt_message(unwrap(self.ephemeral_encryption_key),
                                            encrypted_message)
                    IN IF self.state = "NormalOperation"
                       THEN IF is_ok(with_ephemeral) THEN Some(unwrap(with_ephemeral))
                            ELSE IF is_ok(with_initial) THEN Some(unwrap(with_initial))
                            ELSE None
                       ELSE IF is_ok(with_initial) THEN Some(unwrap(with_initial))
                            ELSE IF is_ok(with_ephemeral) THEN Some(unwrap(with_ephemeral))
                            ELSE None
               ELSE IF is_ok(with_initial) THEN Some(unwrap(with_initial))
                    ELSE None

\* Returns [panicked, value]: value is None or Some(ClientToClientMessage).
read_message(self, message) ==
    IF message.len = 0
    THEN [panicked |-> TRUE, value |-> None]
    ELSE LET decrypted == decrypt_message_helper(self, message)
         IN IF ~is_some(decrypted)
            THEN [panicked |-> FALSE, value |-> None]
            ELSE LET m == unwrap(decrypted)
                 IN IF m.len = 0
                    THEN [panicked |-> TRUE, value |-> None]
                    ELSE CASE m.disc = 1 ->
                                IF m.len # 33
                                THEN [panicked |-> FALSE, value |-> None]
                                ELSE [panicked |-> FALSE, value |-> Some(PublicKey(m.pubkey))]
                           [] m.disc = 2 ->
                                [panicked |-> FALSE,
                                 value |-> Some(EncryptionKeyPart(m.key_part))]
                           [] m.disc = 3 ->
                                IF m.len < 5
                                THEN [panicked |-> FALSE, value |-> None]
                                ELSE IF m.len # 5 + m.message_length
                                THEN [panicked |-> FALSE, value |-> None]
                                ELSE [panicked |-> FALSE,
                                      value |-> Some(TextMessage(m.message))]
                           [] OTHER -> [panicked |-> FALSE, value |-> None]

process_text_message(self, message) ==
    LET checked == check_message_signature(self, message)
    IN IF checked.panicked THEN Panic(self)
       ELSE IF ~is_some(checked.value) THEN Done(self, << >>, << >>)
       ELSE ui_send(self, UIEvent_IncomingMessage(self.conference_id,
                                                  unwrap(checked.value)[1],
                                                  unwrap(checked.value)[2]))

\* An EncryptionKeyPart that arrives during the public-key exchange is
\* folded in and counted.
process_message_public_key_exchange_folds_parts(self, message, iv) ==
    LET read == read_message(self, message)
    IN IF read.panicked THEN Panic(self)
       ELSE IF ~is_some(read.value) THEN Done(self, << >>, << >>)
       ELSE LET m == unwrap(read.value)
            IN CASE m.type = "PublicKey" ->
                      LET inserted == [self EXCEPT !.unsorted_public_keys = @ \cup {m.pubkey}]
                      IN IF Cardinality(inserted.unsorted_public_keys) = self.number_of_peers
                         THEN finish_public_key_exchange(inserted, iv)
                         ELSE Done(inserted, << >>, << >>)
                 [] m.type = "Message" -> process_text_message(self, m.message)
                 [] OTHER -> Done([self EXCEPT
                                     !.new_ephemeral_key =
                                         apply_ephemeral_key_part(@, m.key_part),
                                     !.ephemeral_key_parts = @ + 1],
                                  << >>, << >>)

process_message_public_key_exchange(self, message, iv) ==
    LET read == read_message(self, message)
    IN IF read.panicked THEN Panic(self)
       ELSE IF ~is_some(read.value) THEN Done(self, << >>, << >>)
       ELSE LET m == unwrap(read.value)
            IN CASE m.type = "PublicKey" ->
                      LET inserted == [self EXCEPT !.unsorted_public_keys = @ \cup {m.pubkey}]
                      IN IF Cardinality(inserted.unsorted_public_keys) = self.number_of_peers
                         THEN finish_public_key_exchange(inserted, iv)
                         ELSE Done(inserted, << >>, << >>)
                 [] m.type = "Message" -> process_text_message(self, m.message)
                 [] OTHER -> Done(self, << >>, << >>)

\* A key part is folded in and counted whatever its length.
process_message_ephemeral_key_negotiation_any_length(self, message) ==
    LET read == read_message(self, message)
    IN IF read.panicked THEN Panic(self)
       ELSE IF ~is_some(read.value) THEN Done(self, << >>, << >>)
       ELSE LET m == unwrap(read.value)
            IN CASE m.type = "EncryptionKeyPart" ->
                      LET applied ==
                              [self EXCEPT
                                 !.new_ephemeral_key =
                                     apply_ephemeral_key_part(@, m.key_part),
                                 !.ephemeral_key_parts = @ + 1]
                      IN IF applied.ephemeral_key_parts = applied.number_of_peers - 1
                         THEN finish_conference_setup(
                                  [applied EXCEPT
                                     !.ephemeral_encryption_key =
                                         Some(applied.new_ephemeral_key),
                                     !.state = "EncryptionKeyNegotiationFinished"])
                         ELSE Done(applied, << >>, << >>)
                 [] m.type = "Message" -> process_text_message(self, m.message)
                 [] OTHER -> Done(self, << >>, << >>)

process_message_ephemeral_key_negotiation(self, message) ==
    LET read == read_message(self, message)
    IN IF read.panicked THEN Panic(self)
       ELSE IF ~is_some(read.value) THEN Done(self, << >>, << >>)
       ELSE LET m == unwrap(read.value)
            IN CASE m.type = "EncryptionKeyPart" ->
                      IF m.key_part.len # KEY_SIZE
                      THEN Done(self, << >>, << >>)
                      ELSE LET applied ==
                                   [self EXCEPT
                                      !.new_ephemeral_key =
                                          apply_ephemeral_key_part(@, m.key_part),
                                      !.ephemeral_key_parts = @ + 1]
                           IN IF applied.ephemeral_key_parts = applied.number_of_peers - 1
                              THEN finish_conference_setup(
                                       [applied EXCEPT
                                          !.ephemeral_encryption_key =
                                              Some(applied.new_ephemeral_key),
                                          !.state = "EncryptionKeyNegotiationFinished"])
                              ELSE Done(applied, << >>, << >>)
                 [] m.type = "Message" -> process_text_message(self, m.message)
                 [] OTHER -> Done(self, << >>, << >>)

process_message_normal_operation(self, message) ==
    LET read == read_message(self, message)
    IN IF read.panicked THEN Panic(self)
       ELSE IF ~is_some(read.value) THEN Done(self, << >>, << >>)
       ELSE LET m == unwrap(read.value)
            IN IF m.type = "Message"
               THEN process_text_message(self, m.message)
               ELSE Done(self, << >>, << >>)

process_incoming_message(self, message, iv) ==
    CASE self.state = "PublicKeyExchange" ->
           process_message_public_key_exchange(self, message, iv)
      [] self.state = "EncryptionKeyNegotiation" ->
           process_message_ephemeral_key_negotiation(self, message)
      [] self.state = "NormalOperation" ->
           process_message_normal_operation(self, message)
      [] OTHER -> Done(self, << >>, << >>)

process_outbound_message(self, message_id, message, iv, alias) ==
    IF self.state = "NormalOperation"
    THEN IF ~(is_some(self.ring) /\ is_some(self.ring_personal_key_index)
              /\ is_some(self.ephemeral_encryption_key))
         THEN Panic(self)
         ELSE send_message(self, TextMessage(sign_message_bytes(self, message, alias)),
                           Some(message_id), iv)
    ELSE ui_send(self, UIEvent_MessageError(self.conference_id, message_id))

\* ------------------------------------------- connection_manager.rs (frames)

\* The relay's 0x07 IncomingMessage frame: cid:u32, len:u32, ciphertext[len].
ServerFrame_IncomingMessage(cid, bytes) ==
    [conference_id |-> cid, message_length |-> bytes.len, body |-> bytes]

\* Vec::with_capacity(n): room for n bytes, length 0.
Vec_with_capacity(n) == [len |-> 0, iv |-> 0, ciphertext |-> Seal(0, 0, [len |-> 0])]

\* read_exact(&mut buf): fills buf.len() bytes from the stream.
read_exact(body, buf) == IF buf.len = 0 THEN buf ELSE body

\* read_server_event, IncomingMessage branch.
read_server_event_IncomingMessage(frame) ==
    LET message == Vec_with_capacity(frame.message_length)
    IN [conference_id |-> frame.conference_id,
        message |-> read_exact(frame.body, message)]

\* -------------------------------------------------------------- variables

VARIABLES
    wire,        \* TRUE: relayed frames reach the manager through read_server_event
    cm,          \* peer -> its ConferenceManager
    task,        \* peer -> "absent" | "spawned" | "running" | "panicked" | "stopped"
    sm,          \* peer -> state manager task: "running" | "panicked" | "stopped"
    conn,        \* peer -> its stream from the relay: "open" | "desynchronised"
    up,          \* peer -> Messages it pushed that the relay has not handled yet
    down,        \* peer -> server events the relay wrote to it, not yet handled
    ui,          \* peer -> UIEvents its UI has received
    outsiders,   \* conference members whose clients are not modelled
    restructs,   \* membership changes of outsiders so far
    contrib,     \* peer -> the key part it generated for the epoch it is working on
    sends,       \* peer -> UIAction::SendMessage requests handled
    injected,    \* frames injected so far
    \* one client's state manager (start_state_manager) and its channels
    sent_packets,             \* HashMap<PacketNonce, SentEvent>
    send_packets_last_index,  \* PacketNonce, a u32
    conferences,              \* ConferenceId -> the manager behind its Sender
    client_events,            \* ClientEvents written to the server, not yet answered
    server_events,            \* ServerEvents read from the server, not yet handled
    message_queue,            \* Messages the managers pushed, not yet forwarded
    ui_events,                \* UIEvents the UI has received
    sm_loop,                  \* "running" | "stopped" | "panicked"
    insertions,               \* the nonce of every sent_packets.insert so far, in order
    ui_sends,                 \* UIAction::SendMessage requests handled
    unsolicited,              \* server events sent without a request
    returned,                 \* ConferenceId -> manager tasks that returned Ok(())
    \* the connection manager (start_connection_manager) and its socket
    connection_manager,       \* "handshake" | "running" | "Ok" | "Err": the task's result
    socket,                   \* the frames written to the server, in order
    server_response,          \* handle_handshake's one-byte buffer
    \* the unit tests of crypto.rs
    crypto_test               \* the locals of the test that is running, if any

confvars == << wire, cm, task, sm, conn, up, down, ui, outsiders, restructs, contrib,
               sends, injected >>

smvars == << sent_packets, send_packets_last_index, conferences, client_events,
             server_events, message_queue, ui_events, sm_loop, insertions, ui_sends,
             unsolicited, returned >>

connvars == << connection_manager, socket, server_response >>

testvars == << crypto_test >>

vars == << confvars, smvars, connvars, testvars >>

\* No unit test is running.
NoTest == [test |-> "none"]

\* start_state_manager, up to the loop.
InitLoop ==
    /\ sent_packets = [n \in {} |-> 0]
    /\ send_packets_last_index = 0
    /\ conferences = [c \in {} |-> 0]
    /\ client_events = << >>
    /\ server_events = << >>
    /\ message_queue = << >>
    /\ ui_events = << >>
    /\ sm_loop = "running"
    /\ insertions = << >>
    /\ ui_sends = 0
    /\ unsolicited = 0
    /\ returned = [c \in {} |-> 0]

\* The connection manager has entered its loop: the server has acknowledged
\* the handshake.
InitSM ==
    /\ InitLoop
    /\ connection_manager = "running"
    /\ socket = << >>
    /\ server_response = 0
    /\ crypto_test = NoTest

Members == {p \in Peers : task[p] # "absent"}

\* The password and the encryption salt of the conference.
ConferenceKey == hash_password_with_salt(1, 1)

UIEvent_ConferenceJoined(cid, n) ==
    [type |-> "ConferenceJoined", conference_id |-> cid, number_of_peers |-> n]

\* Peer 1 has created and joined conference 1 as its only member.
InitConference(w) ==
    /\ wire = w
    /\ cm = [p \in Peers |-> ConferenceManager_new(1, IF p = 1 THEN 1 ELSE 0, ConferenceKey, p)]
    /\ task = [p \in Peers |-> IF p = 1 THEN "spawned" ELSE "absent"]
    /\ sm = [p \in Peers |-> "running"]
    /\ conn = [p \in Peers |-> "open"]
    /\ up = [p \in Peers |-> << >>]
    /\ down = [p \in Peers |-> << >>]
    /\ ui = [p \in Peers |-> IF p = 1 THEN << UIEvent_ConferenceJoined(1, 1) >> ELSE << >>]
    /\ outsiders = 0
    /\ restructs = 0
    /\ contrib = [p \in Peers |-> 0]
    /\ sends = [p \in Peers |-> 0]
    /\ injected = 0

InitWith(w) == InitConference(w) /\ InitSM

\* The effect of one handler of p's manager: the state manager takes what it
\* pushed to message_sender and hands it to the connection manager, which
\* writes it to the relay; the UI takes what it pushed to ui_event_sender.
Apply(p, res, sm_events) ==
    /\ cm' = [cm EXCEPT ![p] = res.self]
    /\ task' = [task EXCEPT ![p] = IF res.panicked THEN "panicked" ELSE "running"]
    /\ ui' = [ui EXCEPT ![p] = @ \o sm_events \o res.ui]
    /\ up' = [up EXCEPT ![p] = @ \o res.out]

\* start_conference_manager, up to the first wait on the event channel.
CM_Start(p) ==
    /\ task[p] = "spawned"
    /\ \E iv \in IVs : Apply(p, start_public_key_exchange(cm[p], iv), << >>)
    /\ UNCHANGED << smvars, connvars, testvars, wire, sm, conn, down, outsiders, restructs, contrib, sends, injected >>

\* The relay tells the members of a membership change.
Announce(n) ==
    [r \in Peers |-> IF r \in Members
                     THEN down[r] \o << [ev |-> "ConferenceRestructuring", n |-> n] >>
                     ELSE down[r]]

\* The relay admits the next modelled peer: it answers its join with
\* ConferenceJoined(N) (state_manager.rs creates the manager and tells the
\* UI) and announces ConferenceRestructuring(N) to the members.
Server_Join(p) ==
    /\ task[p] = "absent"
    /\ \A q \in Peers : q < p => task[q] # "absent"
    /\ sm[p] = "running"
    /\ LET n == Cardinality(Members) + 1 + outsiders
       IN /\ cm' = [cm EXCEPT ![p] = ConferenceManager_new(1, n, ConferenceKey, p)]
          /\ task' = [task EXCEPT ![p] = "spawned"]
          /\ ui' = [ui EXCEPT ![p] = @ \o << UIEvent_ConferenceJoined(1, n) >>]
          /\ down' = Announce(n)
    /\ UNCHANGED << smvars, connvars, testvars, wire, sm, conn, up, outsiders, restructs, contrib, sends, injected >>

\* A member whose client is not modelled joins (d = 1) or leaves (d = -1).
Server_Outsider(d) ==
    /\ restructs < MaxRestructurings
    /\ outsiders + d >= 0
    /\ down' = Announce(Cardinality(Members) + outsiders + d)
    /\ outsiders' = outsiders + d
    /\ restructs' = restructs + 1
    /\ UNCHANGED << smvars, connvars, testvars, wire, cm, task, sm, conn, up, ui, contrib, sends, injected >>

Server_OutsiderJoin == Server_Outsider(1)
Server_OutsiderLeave == Server_Outsider(-1)

\* The relay takes the next frame p wrote and writes it, as IncomingMessage,
\* to every other member.
Relay_Forward(p) ==
    /\ up[p] # << >>
    /\ up' = [up EXCEPT ![p] = Tail(@)]
    /\ down' = [r \in Peers |->
                   IF r # p /\ r \in Members
                   THEN down[r] \o << [ev |-> "IncomingMessage",
                                       frame |-> ServerFrame_IncomingMessage(
                                                     Head(up[p]).conference,
                                                     Head(up[p]).message)] >>
                   ELSE down[r]]
    /\ UNCHANGED << smvars, connvars, testvars, wire, cm, task, sm, conn, ui, outsiders, restructs, contrib, sends,
                    injected >>

\* The state manager's task ends in a panic: unwrap() on a send to the
\* channel of a manager whose task is gone.
SM_Panic(p) ==
    /\ sm' = [sm EXCEPT ![p] = "panicked"]
    /\ UNCHANGED << cm, task, ui, up >>

\* The state manager of r can take the next server event.
CanHandle(r) ==
    /\ sm[r] = "running" /\ conn[r] = "open"
    /\ task[r] \in {"running", "panicked", "stopped"}
    /\ down[r] # << >>

\* ServerEvent::ConferenceRestructuring at peer r: the state manager forwards
\* it to the manager and tells the UI; the manager restructures.
Deliver_ConferenceRestructuring(r) ==
    /\ CanHandle(r)
    /\ Head(down[r]).ev = "ConferenceRestructuring"
    /\ down' = [down EXCEPT ![r] = Tail(@)]
    /\ LET n == Head(down[r]).n
       IN IF task[r] = "running"
          THEN /\ \E iv \in IVs, new_key \in KeyValues :
                     /\ Apply(r, initiate_conference_restructuring(cm[r], n, new_key, iv),
                              << UIEvent_ConferenceRestructuring(1, n) >>)
                     /\ contrib' = [contrib EXCEPT ![r] = new_key]
               /\ UNCHANGED sm
          ELSE /\ SM_Panic(r)
               /\ UNCHANGED contrib
    /\ UNCHANGED << smvars, connvars, testvars, wire, conn, outsiders, restructs, sends, injected >>

\* What the manager is handed for a relayed frame: the bytes the relay sent,
\* or what read_server_event makes of them.
Transport(frame) ==
    IF wire THEN read_server_event_IncomingMessage(frame).message ELSE frame.body

\* ServerEvent::IncomingMessage at peer r.
Deliver_IncomingMessage(r) ==
    /\ CanHandle(r)
    /\ Head(down[r]).ev = "IncomingMessage"
    /\ down' = [down EXCEPT ![r] = Tail(@)]
    /\ LET frame == Head(down[r]).frame
           message == Transport(frame)
       IN /\ IF task[r] = "running"
             THEN /\ \E iv \in IVs : Apply(r, process_incoming_message(cm[r], message, iv), << >>)
                  /\ UNCHANGED sm
             ELSE SM_Panic(r)
          \* a body left unread is taken for the frames that follow
          /\ conn' = [conn EXCEPT ![r] =
                         IF message.len # frame.message_length THEN "desynchronised" ELSE @]
    /\ UNCHANGED << smvars, connvars, testvars, wire, outsiders, restructs, contrib, sends, injected >>

RECURSIVE SumUpTo(_, _)
SumUpTo(f, n) == IF n = 0 THEN 0 ELSE f[n] + SumUpTo(f, n - 1)

SentSoFar == SumUpTo(sends, NPeers)

\* UIAction::SendMessage at peer p: the state manager hands OutboundMessage to
\* the manager, which signs and sends it or answers MessageError.
UI_SendMessage(p) ==
    /\ sm[p] = "running"
    /\ task[p] \in {"running", "panicked", "stopped"}
    /\ SentSoFar < MaxMsgs
    /\ sends' = [sends EXCEPT ![p] = @ + 1]
    /\ \E text \in Texts :
          IF task[p] = "running"
          THEN /\ \E iv \in IVs, alias \in BOOLEAN :
                     Apply(p, process_outbound_message(cm[p], sends[p] + 1, text, iv, alias),
                           << >>)
               /\ UNCHANGED sm
          ELSE SM_Panic(p)
    /\ UNCHANGED << smvars, connvars, testvars, wire, conn, down, outsiders, restructs, contrib, injected >>

\* The connection manager meets an invalid event type and returns an error:
\* server_event_receiver yields None, the state manager leaves its loop and
\* drops the conferences map, and the manager's event stream ends.
SM_ServerClosed(p) ==
    /\ conn[p] = "desynchronised"
    /\ sm[p] = "running"
    /\ sm' = [sm EXCEPT ![p] = "stopped"]
    /\ task' = [task EXCEPT ![p] = IF @ \in {"running", "spawned"} THEN "stopped" ELSE @]
    /\ UNCHANGED << smvars, connvars, testvars, wire, cm, conn, up, down, ui, outsiders, restructs, contrib, sends,
                    injected >>

NextConf ==
    \/ \E p \in Peers : CM_Start(p)
    \/ \E p \in Peers : Server_Join(p)
    \/ Server_OutsiderJoin
    \/ Server_OutsiderLeave
    \/ \E p \in Peers : Relay_Forward(p)
    \/ \E r \in Peers : Deliver_ConferenceRestructuring(r)
    \/ \E r \in Peers : Deliver_IncomingMessage(r)
    \/ \E p \in Peers : UI_SendMessage(p)

\* The conference managers of NPeers clients and the relay between them;
\* each manager is handed the bytes the relay sent.
SpecConf == InitWith(FALSE) /\ [][NextConf]_vars

\* The exchange of a two-member conference, handler by handler: peer 1 (A)
\* had joined alone and is restructured to 2, contributing new_key; peer 2
\* (B) joins as the second member; each is handed the frames the other
\* pushed.
Setup_A0 == start_public_key_exchange(ConferenceManager_new(1, 1, ConferenceKey, 1), 1)
Setup_B0 == start_public_key_exchange(ConferenceManager_new(1, 2, ConferenceKey, 2), 1)
Setup_A1(new_key) == initiate_conference_restructuring(Setup_A0.self, 2, new_key, 1)
Setup_A2(new_key) ==
    process_incoming_message(Setup_A1(new_key).self, Setup_B0.out[1].message, 1)
Setup_B1(new_key) ==
    process_incoming_message(Setup_B0.self, Setup_A1(new_key).out[1].message, 1)
Setup_A3(new_key) ==
    process_incoming_message(Setup_A2(new_key).self, Setup_B1(new_key).out[1].message, 1)
Setup_B2(new_key) ==
    process_incoming_message(Setup_B1(new_key).self, Setup_A2(new_key).out[1].message, 1)

\* The two managers after the exchange.
EstablishedPair(new_key) == << Setup_A3(new_key).self, Setup_B2(new_key).self >>

\* A two-member conference in NormalOperation, nothing in flight.
InitEstablished ==
    \E new_key \in KeyValues :
        /\ wire = TRUE
        /\ cm = [p \in Peers |->
                    IF p <= 2 THEN EstablishedPair(new_key)[p]
                    ELSE ConferenceManager_new(1, 0, ConferenceKey, p)]
        /\ task = [p \in Peers |-> IF p <= 2 THEN "running" ELSE "absent"]
        /\ sm = [p \in Peers |-> "running"]
        /\ conn = [p \in Peers |-> "open"]
        /\ up = [p \in Peers |-> << >>]
        /\ down = [p \in Peers |-> << >>]
        /\ ui = [p \in Peers |->
                    CASE p = 1 -> << UIEvent_ConferenceJoined(1, 1),
                                     UIEvent_ConferenceRestructuring(1, 2),
                                     UIEvent_ConferenceRestructuringFinished(1) >>
                      [] p = 2 -> << UIEvent_ConferenceJoined(1, 2),
                                     UIEvent_ConferenceRestructuringFinished(1) >>
                      [] OTHER -> << >>]
        /\ outsiders = 0
        /\ restructs = 0
        /\ contrib = [p \in Peers |-> IF p = 1 THEN new_key ELSE 0]
        /\ sends = [p \in Peers |-> 0]
        /\ injected = 0
        /\ InitSM

NextWire ==
    \/ Server_OutsiderJoin
    \/ Server_OutsiderLeave
    \/ \E p \in Peers : Relay_Forward(p)
    \/ \E r \in Peers : Deliver_ConferenceRestructuring(r)
    \/ \E r \in Peers : Deliver_IncomingMessage(r)
    \/ \E p \in Peers : UI_SendMessage(p)
    \/ \E p \in Peers : SM_ServerClosed(p)

\* An established two-member conference in which every relayed frame
\* reaches the manager through the connection manager's read_server_event.
SpecWire == InitEstablished /\ [][NextWire]_vars

\* ---------------------------------------------------- arbitrary frames

\* Raw bytes of a given length that hold no sealed content.
RawBytes(len) == [len |-> len, iv |-> 0, ciphertext |-> Seal(0, 0, [len |-> 0])]

\* A frame sealed under key by someone who holds it.
SealedFrame(key, iv, plain) == EncryptionResult_encode(encrypt_message(plain, key, iv))

\* A 32-byte word that came out of no signature.
ForgedWord(canon, decomp) == [sig |-> NoSig, pos |-> 0, canon |-> canon, decomp |-> decomp]

\* A signed-message layout for a ring of n: challenge, n responses, key
\* image, a one-byte text.
ForgedSigned(n, challenge_ok, key_image_ok) ==
    [words |-> << ForgedWord(challenge_ok, FALSE) >>
               \o [i \in 1..n |-> ForgedWord(TRUE, FALSE)]
               \o << ForgedWord(FALSE, key_image_ok) >>,
     tail |-> [id |-> "x", len |-> 1]]

\* The keys a member of the conference can seal a frame for `self` under.
KnownKeys(self) ==
    {self.initial_encryption_key}
    \cup (IF is_some(self.ephemeral_encryption_key)
          THEN {unwrap(self.ephemeral_encryption_key)} ELSE {})

\* Byte strings the relay, or a member, can make `self` receive.
ArbitraryFrames(self) ==
    {RawBytes(0), RawBytes(IV_SIZE + TAG_SIZE - 1)}
    \cup {[SealedFrame(self.initial_encryption_key, 1, [len |-> 1, disc |-> 9])
              EXCEPT !.ciphertext.tag = FALSE]}
    \cup {SealedFrame(self.initial_encryption_key, 1, plain) :
            plain \in {[len |-> 0],
                       [len |-> 1, disc |-> 9],
                       [len |-> KEY_SIZE, disc |-> 1, pubkey |-> 0],
                       [len |-> 1 + KEY_SIZE, disc |-> 1, pubkey |-> 0],
                       [len |-> KEY_SIZE, disc |-> 2,
                        key_part |-> [len |-> KEY_SIZE - 1, value |-> 0]],
                       [len |-> 4, disc |-> 3]}}
    \cup {SealedFrame(key, 1, ClientToClientMessage_encode(TextMessage(
                                  ForgedSigned(self.number_of_peers, c, k)))) :
            key \in KnownKeys(self), c \in BOOLEAN, k \in BOOLEAN}
    \cup {SealedFrame(key, 1,
                      [ClientToClientMessage_encode(TextMessage(
                           ForgedSigned(self.number_of_peers, TRUE, TRUE)))
                          EXCEPT !.message_length = @ + 1]) :
            key \in KnownKeys(self)}

\* Someone makes the relay write an arbitrary IncomingMessage frame to r.
InjectFrame(r) ==
    /\ injected < MaxInject
    /\ r \in Members
    /\ injected' = injected + 1
    /\ \E bytes \in ArbitraryFrames(cm[r]) :
          down' = [down EXCEPT ![r] = @ \o << [ev |-> "IncomingMessage",
                                               frame |-> ServerFrame_IncomingMessage(1, bytes)] >>]
    /\ UNCHANGED << smvars, connvars, testvars, wire, cm, task, sm, conn, up, ui, outsiders, restructs, contrib,
                    sends >>

NextAdv ==
    \/ \E p \in Peers : CM_Start(p)
    \/ \E p \in Peers : Server_Join(p)
    \/ \E p \in Peers : Relay_Forward(p)
    \/ \E r \in Peers : Deliver_ConferenceRestructuring(r)
    \/ \E r \in Peers : Deliver_IncomingMessage(r)
    \/ \E p \in Peers : UI_SendMessage(p)
    \/ \E r \in Peers : InjectFrame(r)

\* The modelled peers and a relay that also writes arbitrary frames.
SpecAdv == InitWith(FALSE) /\ [][NextAdv]_vars

\* ------------------------------------------------------ state_manager.rs

\* HashMap
insert(map, k, v) == [x \in DOMAIN map \cup {k} |-> IF x = k THEN v ELSE map[x]]
remove(map, k) == [x \in DOMAIN map \ {k} |-> map[x]]

\* SentEvent
SentEvent_CreateConference == [type |-> "CreateConference"]
SentEvent_GetConferenceJoinSalt(cid, password) ==
    [type |-> "GetConferenceJoinSalt", conference_id |-> cid, password |-> password]
SentEvent_JoinConference(cid, password) ==
    [type |-> "JoinConference", conference_id |-> cid, password |-> password]
SentEvent_LeaveConference(cid) == [type |-> "LeaveConference", conference_id |-> cid]
SentEvent_SendMessage(cid, message_id) ==
    [type |-> "SendMessage", conference_id |-> cid, message_id |-> message_id]
SentEvent_Disconnect == [type |-> "Disconnect"]

\* ClientEvent
ClientEvent_CreateConference(nonce, password_hash, join_salt, encryption_salt) ==
    [type |-> "CreateConference", nonce |-> nonce, password_hash |-> password_hash,
     join_salt |-> join_salt, encryption_salt |-> encryption_salt]
ClientEvent_GetConferenceJoinSalt(nonce, cid) ==
    [type |-> "GetConferenceJoinSalt", nonce |-> nonce, conference_id |-> cid]
ClientEvent_JoinConference(nonce, cid, password_hash) ==
    [type |-> "JoinConference", nonce |-> nonce, conference_id |-> cid,
     password_hash |-> password_hash]
ClientEvent_LeaveConference(nonce, cid) ==
    [type |-> "LeaveConference", nonce |-> nonce, conference_id |-> cid]
ClientEvent_SendMessage(nonce, message) ==
    [type |-> "SendMessage", nonce |-> nonce, message |-> message]
ClientEvent_Disconnect == [type |-> "Disconnect"]

\* UIEvent, the variants the state manager sends itself.
UIEvent_ConferenceCreated(cid) == [type |-> "ConferenceCreated", conference_id |-> cid]
UIEvent_ConferenceCreateFailed == [type |-> "ConferenceCreateFailed"]
UIEvent_ConferenceJoinFailed(cid) == [type |-> "ConferenceJoinFailed", conference_id |-> cid]
UIEvent_ConferenceLeft(cid) == [type |-> "ConferenceLeft", conference_id |-> cid]
UIEvent_MessageAccepted(cid, message_id) ==
    [type |-> "MessageAccepted", conference_id |-> cid, message_id |-> message_id]
UIEvent_MessageRejected(cid, message_id) ==
    [type |-> "MessageRejected", conference_id |-> cid, message_id |-> message_id]

\* The counter left as it is: the nonce of the previous packet again.
next_packet_nonce_reused(last_index) == last_index

\* send_packets_last_index += 1.  PacketNonce is a u32; the guards keep the
\* counter at most MaxNonce, far from the 2^32 - 1 where the addition overflows.
next_packet_nonce(last_index) == last_index + 1

ConferenceIds == {1}
Passwords == {1}
Salts == {1}

\* sent_packets.insert(nonce, sent_event), noted in insertions.
Insert(map, nonce, sent_event) ==
    /\ sent_packets' = insert(map, nonce, sent_event)
    /\ insertions' = Append(insertions, nonce)

\* The manager task behind a conference's Sender after one of its handlers.
ManagerTask(res) == [self |-> res.self, panicked |-> res.panicked]

\* create_conference: the new manager's task runs start_conference_manager
\* up to its first wait.
create_conference(cid, number_of_peers, password, encryption_salt, iv) ==
    start_public_key_exchange(
        ConferenceManager_new(cid, number_of_peers,
                              hash_password_with_salt(password, encryption_salt), 1),
        iv)

\* The loop takes the next server event, of the given type.
TakeServerEvent(type) ==
    /\ sm_loop = "running"
    /\ server_events # << >>
    /\ Head(server_events).type = type
    /\ server_events' = Tail(server_events)

\* A reply bearing a nonce: what the handler finds under it in sent_packets.
Expected(type) ==
    /\ Head(server_events).nonce \in DOMAIN sent_packets
    /\ sent_packets[Head(server_events).nonce].type = type

\* The Senders of the given conferences are dropped: each of their managers
\* still in its loop finds its event stream ended and returns Ok(()).
Returned(cids) ==
    LET ending == {c \in cids \cap DOMAIN conferences : ~conferences[c].panicked}
    IN [c \in DOMAIN returned \cup ending |->
           (IF c \in DOMAIN returned THEN returned[c] ELSE 0)
           + (IF c \in ending THEN 1 ELSE 0)]

\* The state manager's task ends, by return or by a panic that unwinds it:
\* its locals, the conferences map among them, are dropped.
Dropped ==
    /\ conferences' = [c \in {} |-> 0]
    /\ returned' = Returned(DOMAIN conferences)

\* break: the loop ends, conferences and client_event_sender are dropped.
Break ==
    /\ sm_loop' = "stopped"
    /\ Dropped

\* The variant alone is compared, not the conference id.
Matches_variant_only(type) == Expected(type)

\* A reply's handler acts when the entry under the reply's nonce is of the
\* expected variant and, where the variant has one, carries the reply's
\* conference id; otherwise it warns and changes nothing.
Matches(type) ==
    /\ Expected(type)
    /\ type # "CreateConference" =>
          Head(server_events).conference_id
              = sent_packets[Head(server_events).nonce].conference_id

\* The handlers that tell the UI and remove the entry.
ReplyHandler(reply, type, ui_event) ==
    /\ TakeServerEvent(reply)
    /\ IF Matches(type)
       THEN /\ ui_events' = Append(ui_events, ui_event)
            /\ sent_packets' = remove(sent_packets, Head(server_events).nonce)
       ELSE UNCHANGED << ui_events, sent_packets >>
    /\ UNCHANGED << send_packets_last_index, client_events, message_queue, sm_loop,
                    insertions, ui_sends, unsolicited, confvars, connvars, testvars >>

ServerEvent_HandshakeAcknowledged ==
    /\ TakeServerEvent("HandshakeAcknowledged")
    /\ sm_loop' = "panicked"
    /\ Dropped
    /\ UNCHANGED << sent_packets, send_packets_last_index, client_events,
                    message_queue, ui_events, insertions, ui_sends, unsolicited, confvars, connvars, testvars >>

ServerEvent_ConferenceCreated ==
    /\ ReplyHandler("ConferenceCreated", "CreateConference",
                    UIEvent_ConferenceCreated(Head(server_events).conference_id))
    /\ UNCHANGED << conferences, returned >>

\* The entry of the first phase is left in sent_packets.
ServerEvent_ConferenceJoinSalt_keeps_entry ==
    /\ TakeServerEvent("ConferenceJoinSalt")
    /\ IF Matches("GetConferenceJoinSalt")
       THEN LET e == Head(server_events)
                password == sent_packets[e.nonce].password
                new_packet_nonce == next_packet_nonce(send_packets_last_index)
            IN /\ send_packets_last_index < MaxNonce
               /\ send_packets_last_index' = new_packet_nonce
               /\ Insert(sent_packets, new_packet_nonce,
                         SentEvent_JoinConference(e.conference_id, password))
               /\ IF connection_manager \in {"handshake", "running"}
                  THEN /\ client_events' =
                             Append(client_events,
                                    ClientEvent_JoinConference(
                                        new_packet_nonce, e.conference_id,
                                        hash_password_with_salt(password, e.join_salt)))
                       /\ UNCHANGED << conferences, returned, sm_loop >>
                  ELSE /\ sm_loop' = "panicked"
                       /\ Dropped
                       /\ UNCHANGED client_events
       ELSE UNCHANGED << send_packets_last_index, sent_packets, insertions, client_events,
                         conferences, returned, sm_loop >>
    /\ UNCHANGED << message_queue, ui_events, ui_sends, unsolicited, confvars, connvars, testvars >>

ServerEvent_ConferenceJoinSalt ==
    /\ TakeServerEvent("ConferenceJoinSalt")
    /\ IF Matches("GetConferenceJoinSalt")
       THEN LET e == Head(server_events)
                password == sent_packets[e.nonce].password
                new_packet_nonce == next_packet_nonce(send_packets_last_index)
            IN /\ send_packets_last_index < MaxNonce
               /\ send_packets_last_index' = new_packet_nonce
               /\ Insert(remove(sent_packets, e.nonce), new_packet_nonce,
                         SentEvent_JoinConference(e.conference_id, password))
               /\ IF connection_manager \in {"handshake", "running"}
                  THEN /\ client_events' =
                             Append(client_events,
                                    ClientEvent_JoinConference(
                                        new_packet_nonce, e.conference_id,
                                        hash_password_with_salt(password, e.join_salt)))
                       /\ UNCHANGED << conferences, returned, sm_loop >>
                  ELSE /\ sm_loop' = "panicked"
                       /\ Dropped
                       /\ UNCHANGED client_events
       ELSE UNCHANGED << send_packets_last_index, sent_packets, insertions, client_events,
                         conferences, returned, sm_loop >>
    /\ UNCHANGED << message_queue, ui_events, ui_sends, unsolicited, confvars, connvars, testvars >>

ServerEvent_ConferenceJoined ==
    /\ TakeServerEvent("ConferenceJoined")
    /\ IF Matches("JoinConference")
       THEN LET e == Head(server_events)
            IN \E iv \in IVs :
                  LET res == create_conference(e.conference_id, e.number_of_peers,
                                               sent_packets[e.nonce].password,
                                               e.encryption_salt, iv)
                  IN /\ sent_packets' = remove(sent_packets, e.nonce)
                     /\ conferences' = insert(conferences, e.conference_id, ManagerTask(res))
                     /\ returned' = Returned({e.conference_id})
                     /\ message_queue' = message_queue \o res.out
                     /\ ui_events' = ui_events \o res.ui \o
                           << UIEvent_ConferenceJoined(e.conference_id, e.number_of_peers) >>
       ELSE UNCHANGED << sent_packets, conferences, returned, message_queue, ui_events >>
    /\ UNCHANGED << send_packets_last_index, client_events, sm_loop, insertions, ui_sends,
                    unsolicited, confvars, connvars, testvars >>

\* The conference's Sender is kept in the table.
ServerEvent_ConferenceLeft_keeps_manager ==
    /\ ReplyHandler("ConferenceLeft", "LeaveConference",
                    UIEvent_ConferenceLeft(Head(server_events).conference_id))
    /\ UNCHANGED << conferences, returned >>

ServerEvent_ConferenceLeft ==
    /\ ReplyHandler("ConferenceLeft", "LeaveConference",
                    UIEvent_ConferenceLeft(Head(server_events).conference_id))
    /\ conferences' = IF Matches("LeaveConference")
                      THEN remove(conferences, Head(server_events).conference_id)
                      ELSE conferences
    /\ returned' = IF Matches("LeaveConference")
                   THEN Returned({Head(server_events).conference_id})
                   ELSE returned

ServerEvent_MessageAccepted ==
    /\ ReplyHandler("MessageAccepted", "SendMessage",
                    UIEvent_MessageAccepted(
                        Head(server_events).conference_id,
                        sent_packets[Head(server_events).nonce].message_id))
    /\ UNCHANGED << conferences, returned >>

\* conference_sender.send(event).await.unwrap() and the manager's handling of
\* the event; the send panics when the manager's task is gone.
ToManager(cid, sm_events, res) ==
    IF conferences[cid].panicked
    THEN /\ sm_loop' = "panicked"
         /\ Dropped
         /\ UNCHANGED << message_queue, ui_events >>
    ELSE /\ conferences' = [conferences EXCEPT ![cid] = ManagerTask(res)]
         /\ UNCHANGED returned
         /\ message_queue' = message_queue \o res.out
         /\ ui_events' = ui_events \o sm_events \o res.ui
         /\ UNCHANGED sm_loop

ServerEvent_ConferenceRestructuring ==
    /\ TakeServerEvent("ConferenceRestructuring")
    /\ LET e == Head(server_events)
       IN IF e.conference_id \in DOMAIN conferences
          THEN \E iv \in IVs, new_key \in KeyValues :
                  ToManager(e.conference_id,
                            << UIEvent_ConferenceRestructuring(e.conference_id,
                                                               e.number_of_peers) >>,
                            initiate_conference_restructuring(
                                conferences[e.conference_id].self, e.number_of_peers,
                                new_key, iv))
          ELSE UNCHANGED << conferences, returned, message_queue, ui_events, sm_loop >>
    /\ UNCHANGED << sent_packets, send_packets_last_index, client_events, insertions,
                    ui_sends, unsolicited, confvars, connvars, testvars >>

ServerEvent_IncomingMessage ==
    /\ TakeServerEvent("IncomingMessage")
    /\ LET e == Head(server_events)
       IN IF e.conference_id \in DOMAIN conferences
          THEN \E iv \in IVs :
                  ToManager(e.conference_id, << >>,
                            process_incoming_message(conferences[e.conference_id].self,
                                                     e.message, iv))
          ELSE UNCHANGED << conferences, returned, message_queue, ui_events, sm_loop >>
    /\ UNCHANGED << sent_packets, send_packets_last_index, client_events, insertions,
                    ui_sends, unsolicited, confvars, connvars, testvars >>

ServerEvent_GeneralError ==
    /\ TakeServerEvent("GeneralError")
    /\ Break
    /\ UNCHANGED << sent_packets, send_packets_last_index, client_events, message_queue,
                    ui_events, insertions, ui_sends, unsolicited, confvars, connvars, testvars >>

ServerEvent_ConferenceCreationError ==
    /\ ReplyHandler("ConferenceCreationError", "CreateConference",
                    UIEvent_ConferenceCreateFailed)
    /\ UNCHANGED << conferences, returned >>

ServerEvent_ConferenceJoinSaltError ==
    /\ ReplyHandler("ConferenceJoinSaltError", "GetConferenceJoinSalt",
                    UIEvent_ConferenceJoinFailed(Head(server_events).conference_id))
    /\ UNCHANGED << conferences, returned >>

\* The UI is told the conference was left, not that the join failed.
ServerEvent_ConferenceJoinError_as_left ==
    /\ ReplyHandler("ConferenceJoinError", "JoinConference",
                    UIEvent_ConferenceLeft(Head(server_events).conference_id))
    /\ UNCHANGED << conferences, returned >>

ServerEvent_ConferenceJoinError ==
    /\ ReplyHandler("ConferenceJoinError", "JoinConference",
                    UIEvent_ConferenceJoinFailed(Head(server_events).conference_id))
    /\ UNCHANGED << conferences, returned >>

\* The error is ignored and the conference removed all the same.
ServerEvent_ConferenceLeaveError ==
    /\ ReplyHandler("ConferenceLeaveError", "LeaveConference",
                    UIEvent_ConferenceLeft(Head(server_events).conference_id))
    /\ conferences' = IF Matches("LeaveConference")
                      THEN remove(conferences, Head(server_events).conference_id)
                      ELSE conferences
    /\ returned' = IF Matches("LeaveConference")
                   THEN Returned({Head(server_events).conference_id})
                   ELSE returned

ServerEvent_MessageError ==
    /\ ReplyHandler("MessageError", "SendMessage",
                    UIEvent_MessageRejected(
                        Head(server_events).conference_id,
                        sent_packets[Head(server_events).nonce].message_id))
    /\ UNCHANGED << conferences, returned >>

\* The joins in their first phase: each takes one more nonce when its salt
\* arrives, which the bound on the counter has to leave room for.
PendingSalts ==
    Cardinality({n \in DOMAIN sent_packets :
                    sent_packets[n].type = "GetConferenceJoinSalt"})

\* The Message pushed last is forwarded first.
SM_MessageReceiver_newest_first ==
    /\ sm_loop = "running"
    /\ connection_manager \in {"handshake", "running"}
    /\ message_queue # << >>
    /\ send_packets_last_index + PendingSalts < MaxNonce
    /\ LET message == message_queue[Len(message_queue)]
           packet_nonce == next_packet_nonce(send_packets_last_index)
       IN /\ message_queue' = SubSeq(message_queue, 1, Len(message_queue) - 1)
          /\ send_packets_last_index' = packet_nonce
          /\ Insert(sent_packets, packet_nonce, SentEvent_CreateConference)
          /\ client_events' = Append(client_events,
                                     ClientEvent_SendMessage(packet_nonce, message))
    /\ UNCHANGED << conferences, returned, server_events, ui_events, sm_loop, ui_sends, unsolicited,
                    confvars, connvars, testvars >>

\* message_receiver: a Message pushed by a conference manager is forwarded.
SM_MessageReceiver ==
    /\ sm_loop = "running"
    /\ connection_manager \in {"handshake", "running"}
    /\ message_queue # << >>
    /\ send_packets_last_index + PendingSalts < MaxNonce
    /\ LET message == Head(message_queue)
           packet_nonce == next_packet_nonce(send_packets_last_index)
       IN /\ message_queue' = Tail(message_queue)
          /\ send_packets_last_index' = packet_nonce
          /\ Insert(sent_packets, packet_nonce, SentEvent_CreateConference)
          /\ client_events' = Append(client_events,
                                     ClientEvent_SendMessage(packet_nonce, message))
    /\ UNCHANGED << conferences, returned, server_events, ui_events, sm_loop, ui_sends, unsolicited,
                    confvars, connvars, testvars >>

\* Requests not yet answered and server events not yet handled.
InFlight == Len(client_events) + Len(server_events)

\* The UI actions that send a request: its nonce, its entry, its packet.
Request(sent_event, packet) ==
    /\ sm_loop = "running"
    /\ connection_manager \in {"handshake", "running"}
    /\ InFlight < MaxInFlight
    /\ send_packets_last_index + PendingSalts + 1 < MaxNonce
    /\ send_packets_last_index' = next_packet_nonce(send_packets_last_index)
    /\ Insert(sent_packets, next_packet_nonce(send_packets_last_index), sent_event)
    /\ client_events' = Append(client_events, packet)
    /\ UNCHANGED << server_events, message_queue, ui_events, ui_sends, unsolicited,
                    confvars, connvars, testvars >>

UIAction_CreateConference ==
    \E password \in Passwords, join_salt \in Salts, encryption_salt \in Salts :
        /\ Request(SentEvent_CreateConference,
                   ClientEvent_CreateConference(
                       next_packet_nonce(send_packets_last_index),
                       hash_password_with_salt(password, join_salt),
                       join_salt, encryption_salt))
        /\ UNCHANGED << conferences, returned, sm_loop >>

UIAction_JoinConference ==
    \E conference_id \in ConferenceIds, password \in Passwords :
        /\ Request(SentEvent_GetConferenceJoinSalt(conference_id, password),
                   ClientEvent_GetConferenceJoinSalt(
                       next_packet_nonce(send_packets_last_index), conference_id))
        /\ UNCHANGED << conferences, returned, sm_loop >>

UIAction_LeaveConference ==
    \E conference_id \in ConferenceIds :
        /\ Request(SentEvent_LeaveConference(conference_id),
                   ClientEvent_LeaveConference(
                       next_packet_nonce(send_packets_last_index), conference_id))
        /\ UNCHANGED << conferences, returned, sm_loop >>

UIAction_SendMessage ==
    /\ sm_loop = "running"
    /\ ui_sends < MaxMsgs
    /\ ui_sends' = ui_sends + 1
    /\ \E conference_id \in ConferenceIds, message \in Texts :
          LET message_id == ui_sends + 1
          IN IF conference_id \in DOMAIN conferences
             THEN \E iv \in IVs, alias \in BOOLEAN :
                     ToManager(conference_id, << >>,
                               process_outbound_message(conferences[conference_id].self,
                                                        message_id, message, iv, alias))
             ELSE /\ ui_events' = Append(ui_events,
                                         UIEvent_MessageError(conference_id, message_id))
                  /\ UNCHANGED << conferences, returned, message_queue, sm_loop >>
    /\ UNCHANGED << sent_packets, send_packets_last_index, client_events, server_events,
                    insertions, unsolicited, confvars, connvars, testvars >>

UIAction_Disconnect ==
    /\ Request(SentEvent_Disconnect, ClientEvent_Disconnect)
    /\ Break

\* ServerEvent, as read_server_event returns it.  A reply also notes the
\* request it answers.
ServerEvent_Reply(type, request, cid) ==
    [type |-> type, nonce |-> request.nonce, conference_id |-> cid, request |-> request]

\* The replies the server can give to a request: its success or its error.
Replies(request) ==
    CASE request.type = "CreateConference" ->
           {ServerEvent_Reply("ConferenceCreated", request, cid) : cid \in ConferenceIds}
           \cup {ServerEvent_Reply("ConferenceCreationError", request, 0)}
      [] request.type = "GetConferenceJoinSalt" ->
           {[ServerEvent_Reply("ConferenceJoinSalt", request, request.conference_id)
                EXCEPT !.type = "ConferenceJoinSalt"] @@ [join_salt |-> salt]
               : salt \in Salts}
           \cup {ServerEvent_Reply("ConferenceJoinSaltError", request, request.conference_id)}
      [] request.type = "JoinConference" ->
           {ServerEvent_Reply("ConferenceJoined", request, request.conference_id)
               @@ [number_of_peers |-> n, encryption_salt |-> salt]
               : n \in 1..NPeers, salt \in Salts}
           \cup {ServerEvent_Reply("ConferenceJoinError", request, request.conference_id)}
      [] request.type = "LeaveConference" ->
           {ServerEvent_Reply("ConferenceLeft", request, request.conference_id),
            ServerEvent_Reply("ConferenceLeaveError", request, request.conference_id)}
      [] request.type = "SendMessage" ->
           {ServerEvent_Reply("MessageAccepted", request, request.message.conference),
            ServerEvent_Reply("MessageError", request, request.message.conference)}
      [] OTHER -> {}

\* The server answers the next request; a Disconnect has no answer.
Server_Reply ==
    /\ client_events # << >>
    /\ client_events' = Tail(client_events)
    /\ IF Head(client_events).type = "Disconnect"
       THEN UNCHANGED server_events
       ELSE \E reply \in Replies(Head(client_events)) :
               server_events' = Append(server_events, reply)
    /\ UNCHANGED << sent_packets, send_packets_last_index, conferences, returned, message_queue,
                    ui_events, sm_loop, insertions, ui_sends, unsolicited, confvars, connvars, testvars >>

\* The frames of the other member of a two-member conference.
RemoteFrames == {Setup_B0.out[1].message, Setup_B1(0).out[1].message}

\* What the server sends without a request, as the connection manager reads
\* it and sends it on.
Unsolicited ==
    {[type |-> "ConferenceRestructuring", conference_id |-> cid, number_of_peers |-> n]
        : cid \in ConferenceIds, n \in 1..NPeers}
    \cup {[type |-> "IncomingMessage", conference_id |-> cid, message |-> message]
             : cid \in ConferenceIds, message \in RemoteFrames}
    \cup {[type |-> "GeneralError"], [type |-> "HandshakeAcknowledged"]}

Server_Unsolicited ==
    /\ connection_manager = "running"
    /\ sm_loop = "running"
    /\ unsolicited < MaxUnsolicited
    /\ InFlight < MaxInFlight
    /\ unsolicited' = unsolicited + 1
    /\ \E event \in Unsolicited : server_events' = Append(server_events, event)
    /\ UNCHANGED << sent_packets, send_packets_last_index, conferences, returned, client_events,
                    message_queue, ui_events, sm_loop, insertions, ui_sends, confvars, connvars, testvars >>

NextSM ==
    \/ ServerEvent_HandshakeAcknowledged
    \/ ServerEvent_ConferenceCreated
    \/ ServerEvent_ConferenceJoinSalt
    \/ ServerEvent_ConferenceJoined
    \/ ServerEvent_ConferenceLeft
    \/ ServerEvent_MessageAccepted
    \/ ServerEvent_ConferenceRestructuring
    \/ ServerEvent_IncomingMessage
    \/ ServerEvent_GeneralError
    \/ ServerEvent_ConferenceCreationError
    \/ ServerEvent_ConferenceJoinSaltError
    \/ ServerEvent_ConferenceJoinError
    \/ ServerEvent_ConferenceLeaveError
    \/ ServerEvent_MessageError
    \/ SM_MessageReceiver
    \/ UIAction_CreateConference
    \/ UIAction_JoinConference
    \/ UIAction_LeaveConference
    \/ UIAction_SendMessage
    \/ UIAction_Disconnect
    \/ Server_Reply
    \/ Server_Unsolicited

\* One client's state manager, the managers it spawns, its UI and the server.
SpecSM == InitWith(FALSE) /\ [][NextSM]_vars

\* A reply of the given type as read_server_event returns it, with the
\* fields of its variant.
ServerEvent_Stray(type, nonce, cid) ==
    CASE type = "ConferenceJoinSalt" ->
           [type |-> type, nonce |-> nonce, conference_id |-> cid, join_salt |-> 1]
      [] type = "ConferenceJoined" ->
           [type |-> type, nonce |-> nonce, conference_id |-> cid,
            number_of_peers |-> 1, encryption_salt |-> 1]
      [] OTHER -> [type |-> type, nonce |-> nonce, conference_id |-> cid]

\* The server answers the next request with a reply of any type, under the
\* request's nonce or the one after it, naming a conference the UI uses or
\* one it never uses.
Server_Stray ==
    /\ unsolicited < MaxUnsolicited
    /\ unsolicited' = unsolicited + 1
    /\ client_events # << >>
    /\ Head(client_events).type # "Disconnect"
    /\ client_events' = Tail(client_events)
    /\ \E type \in {"ConferenceCreated", "ConferenceJoinSalt", "ConferenceJoined",
                    "ConferenceLeft", "MessageAccepted", "ConferenceCreationError",
                    "ConferenceJoinSaltError", "ConferenceJoinError",
                    "ConferenceLeaveError", "MessageError"},
          nonce \in {Head(client_events).nonce, Head(client_events).nonce + 1},
          cid \in ConferenceIds \cup {7} :
          server_events' = Append(server_events, ServerEvent_Stray(type, nonce, cid))
    /\ UNCHANGED << sent_packets, send_packets_last_index, conferences, returned, message_queue,
                    ui_events, sm_loop, insertions, ui_sends, confvars, connvars, testvars >>

NextStray ==
    \/ ServerEvent_ConferenceCreated
    \/ ServerEvent_ConferenceJoinSalt
    \/ ServerEvent_ConferenceJoined
    \/ ServerEvent_ConferenceLeft
    \/ ServerEvent_MessageAccepted
    \/ ServerEvent_ConferenceCreationError
    \/ ServerEvent_ConferenceJoinSaltError
    \/ ServerEvent_ConferenceJoinError
    \/ ServerEvent_ConferenceLeaveError
    \/ ServerEvent_MessageError
    \/ SM_MessageReceiver
    \/ UIAction_CreateConference
    \/ UIAction_JoinConference
    \/ UIAction_LeaveConference
    \/ UIAction_SendMessage
    \/ UIAction_Disconnect
    \/ Server_Reply
    \/ Server_Stray

\* The state manager and a server whose replies need not answer the request.
SpecStray == InitWith(FALSE) /\ [][NextStray]_vars

\* The UI joins, leaves, sends and disconnects, and never asks for a
\* conference to be created.
NextNoCreate ==
    \/ ServerEvent_ConferenceCreated
    \/ ServerEvent_ConferenceJoinSalt
    \/ ServerEvent_ConferenceJoined
    \/ ServerEvent_ConferenceLeft
    \/ ServerEvent_MessageAccepted
    \/ ServerEvent_ConferenceCreationError
    \/ ServerEvent_ConferenceJoinSaltError
    \/ ServerEvent_ConferenceJoinError
    \/ ServerEvent_ConferenceLeaveError
    \/ ServerEvent_MessageError
    \/ SM_MessageReceiver
    \/ UIAction_JoinConference
    \/ UIAction_LeaveConference
    \/ UIAction_SendMessage
    \/ UIAction_Disconnect
    \/ Server_Reply
    \/ Server_Stray

SpecNoCreate == InitWith(FALSE) /\ [][NextNoCreate]_vars

\* ------------------------------------------------- connection_manager.rs

\* ClientEvent::value: the discriminator, the first byte written.
value(event) ==
    CASE event.type = "CreateConference" -> 1
      [] event.type = "GetConferenceJoinSalt" -> 2
      [] event.type = "JoinConference" -> 3
      [] event.type = "LeaveConference" -> 4
      [] event.type = "SendMessage" -> 5
      [] event.type = "Disconnect" -> 6

\* Disconnect answers that the connection is to be kept open, too.
write_client_event_keeps_open(event, usize_bytes) ==
    [written |-> << [width |-> 1, value |-> value(event)] >>, keep |-> TRUE]

\* write_client_event: one write_all per field, each noted with the number
\* of bytes it writes (to_be_bytes of a u32: 4, of message.message.len(), a
\* usize: usize_bytes; hashes and salts: 32), then the flush; the answer is
\* whether the connection is to be kept open.
write_client_event(event, usize_bytes) ==
    LET nonce == [width |-> 4, value |-> event.nonce]
        conference_id == [width |-> 4, value |-> event.conference_id]
        body ==
          CASE event.type = "CreateConference" ->
                 << nonce,
                    [width |-> 32, value |-> event.password_hash],
                    [width |-> 32, value |-> event.join_salt],
                    [width |-> 32, value |-> event.encryption_salt] >>
            [] event.type = "GetConferenceJoinSalt" -> << nonce, conference_id >>
            [] event.type = "JoinConference" ->
                 << nonce, conference_id, [width |-> 32, value |-> event.password_hash] >>
            [] event.type = "LeaveConference" -> << nonce, conference_id >>
            [] event.type = "SendMessage" ->
                 << nonce,
                    [width |-> 4, value |-> event.message.conference],
                    [width |-> usize_bytes, value |-> event.message.message.len],
                    [width |-> event.message.message.len, value |-> event.message.message] >>
            [] event.type = "Disconnect" -> << >>
    IN [written |-> << [width |-> 1, value |-> value(event)] >> \o body,
        keep |-> event.type # "Disconnect"]

\* The select arm of client_event_receiver with Some(event): the frame is
\* written for a target whose usize has 4 bytes or 8.  The server's answer
\* to a request is read and sent on while the state manager listens.
CM_ClientEvent ==
    /\ connection_manager = "running"
    /\ client_events # << >>
    /\ \E usize_bytes \in {4, 8} :
          LET res == write_client_event(Head(client_events), usize_bytes)
          IN /\ socket' = Append(socket, res.written)
             /\ connection_manager' = IF res.keep THEN "running" ELSE "Ok"
    /\ UNCHANGED << server_response, testvars >>
    /\ LET event == Head(client_events)
       IN /\ client_events' = Tail(client_events)
          /\ IF event.type # "Disconnect" /\ sm_loop = "running"
             THEN \E reply \in Replies(event) :
                     server_events' = Append(server_events, reply)
             ELSE UNCHANGED server_events
    /\ UNCHANGED << sent_packets, send_packets_last_index, conferences, returned,
                    message_queue, ui_events, sm_loop, insertions, ui_sends, unsolicited,
                    confvars >>

\* The select arm of client_event_receiver with None: the state manager has
\* dropped client_event_sender.
CM_ClientChannelClosed ==
    /\ connection_manager = "running"
    /\ sm_loop # "running"
    /\ client_events = << >>
    /\ connection_manager' = "Ok"
    /\ UNCHANGED << smvars, socket, server_response, confvars, testvars >>

\* start_connection_manager returns an Err: the connection, the TLS session
\* or the handshake fails, the stream ends or fails, a discriminator is not a
\* ServerEvent's, or the state manager no longer takes the event read.
CM_Err ==
    /\ connection_manager = "running"
    /\ connection_manager' = "Err"
    /\ UNCHANGED << smvars, socket, server_response, confvars, testvars >>

\* The None is not acted on: the loop goes on.
ServerEvent_None_ignored ==
    /\ sm_loop = "running"
    /\ connection_manager \in {"Ok", "Err"}
    /\ server_events = << >>
    /\ UNCHANGED vars

\* server_event_receiver yields None: the connection manager has returned
\* and every event it sent has been handled.
ServerEvent_None ==
    /\ sm_loop = "running"
    /\ connection_manager \in {"Ok", "Err"}
    /\ server_events = << >>
    /\ Break
    /\ UNCHANGED << sent_packets, send_packets_last_index, client_events, server_events,
                    message_queue, ui_events, insertions, ui_sends, unsolicited, confvars,
                    connvars, testvars >>

\* ui_action_receiver yields None: the UI has dropped its sender.
UIAction_None ==
    /\ sm_loop = "running"
    /\ Break
    /\ UNCHANGED << sent_packets, send_packets_last_index, client_events, server_events,
                    message_queue, ui_events, insertions, ui_sends, unsolicited, confvars,
                    connvars, testvars >>

\* client_event_sender.send(packet).await.unwrap(), for a UI action or a
\* manager's Message, after the connection manager has returned: the unwrap
\* panics.
SM_SendFails ==
    /\ sm_loop = "running"
    /\ connection_manager \in {"Ok", "Err"}
    /\ sm_loop' = "panicked"
    /\ Dropped
    /\ UNCHANGED << sent_packets, send_packets_last_index, client_events, server_events,
                    message_queue, ui_events, insertions, ui_sends, unsolicited, confvars,
                    connvars, testvars >>

\* The server arm of the state manager's select, for the events of a server
\* that only answers.
ServerArm ==
    \/ ServerEvent_ConferenceJoinSalt
    \/ ServerEvent_ConferenceJoined
    \/ ServerEvent_MessageAccepted
    \/ ServerEvent_ConferenceJoinSaltError
    \/ ServerEvent_ConferenceJoinError
    \/ ServerEvent_MessageError
    \/ ServerEvent_None

NextLife ==
    \/ ServerArm
    \/ SM_MessageReceiver
    \/ UIAction_JoinConference
    \/ UIAction_Disconnect
    \/ UIAction_None
    \/ SM_SendFails
    \/ CM_ClientEvent
    \/ CM_ClientChannelClosed
    \/ CM_Err

\* The state manager with its connection manager, from start to the end of
\* both tasks, with a UI that joins conferences.  select! polls every arm that is ready, so an arm that stays
\* ready is taken.
SpecLife ==
    /\ InitWith(FALSE)
    /\ [][NextLife]_vars
    /\ WF_vars(ServerArm)
    /\ WF_vars(CM_ClientEvent)
    /\ WF_vars(CM_ClientChannelClosed)

NextOut ==
    \/ ServerEvent_HandshakeAcknowledged
    \/ ServerEvent_ConferenceJoinSalt
    \/ ServerEvent_ConferenceJoined
    \/ ServerEvent_MessageAccepted
    \/ ServerEvent_ConferenceRestructuring
    \/ ServerEvent_IncomingMessage
    \/ ServerEvent_GeneralError
    \/ ServerEvent_ConferenceJoinSaltError
    \/ ServerEvent_ConferenceJoinError
    \/ ServerEvent_MessageError
    \/ SM_MessageReceiver
    \/ UIAction_JoinConference
    \/ UIAction_SendMessage
    \/ CM_ClientEvent
    \/ Server_Unsolicited

\* The way out of a client: its managers push Messages, the state manager
\* forwards them and the connection manager writes them to the socket.
SpecOut == InitWith(FALSE) /\ [][NextOut]_vars

\* ------------------------------- connection_manager.rs (the handshake)

\* b"\x1CAnonymousConference protocol": 29 bytes, written in one write_all.
PROTOCOL_HEADER == [width |-> 29, value |-> "AnonymousConference protocol"]

\* What the server may answer the banner with: HandshakeAcknowledged (0x00),
\* another discriminator, a byte that is none.
ReplyBytes == {0, 1, 16, 255}

\* Every reply byte is taken for an acknowledgement.
handle_handshake_any_byte(reply) ==
    [written |-> << PROTOCOL_HEADER >>,
     server_response |-> IF is_some(reply) THEN unwrap(reply) ELSE 0,
     result |-> IF is_some(reply) THEN "Ok" ELSE "Err"]

\* handle_handshake: the banner is written and flushed, then one byte is
\* read into server_response; reply is None when the stream ends first
\* (read_exact fails and the buffer keeps its 0).
handle_handshake(reply) ==
    [written |-> << PROTOCOL_HEADER >>,
     server_response |-> IF is_some(reply) THEN unwrap(reply) ELSE 0,
     result |-> IF is_some(reply) /\ unwrap(reply) = 0 THEN "Ok" ELSE "Err"]

\* start_connection_manager from the end of the TLS handshake to the loop:
\* handle_handshake(..).await? returns the error or lets the loop begin.
CM_Handshake ==
    /\ connection_manager = "handshake"
    /\ \E reply \in {None} \cup {Some(byte) : byte \in ReplyBytes} :
          LET res == handle_handshake(reply)
          IN /\ socket' = Append(socket, res.written)
             /\ server_response' = res.server_response
             /\ connection_manager' = IF res.result = "Ok" THEN "running" ELSE "Err"
    /\ UNCHANGED << smvars, confvars, testvars >>

\* The state manager has spawned the connection manager, whose TLS session
\* is up.
InitHandshake ==
    /\ InitConference(FALSE)
    /\ InitLoop
    /\ connection_manager = "handshake"
    /\ socket = << >>
    /\ server_response = 0
    /\ crypto_test = NoTest

NextHandshake ==
    \/ CM_Handshake
    \/ NextLife

SpecHandshake == InitHandshake /\ [][NextHandshake]_vars

\* ------------------------------------------- crypto.rs (the unit tests)

\* Keys, plaintexts and IVs the tests are run with: an empty plaintext, one
\* byte, and the 13 bytes of b"Hello, world!".
TestKeys == KeyValues
TestMessages == {[len |-> 0], [len |-> 1, disc |-> 9], [len |-> 13, disc |-> 72]}
TestIVs == 1..(NumIVs + 1)
\* The byte strings handed to decode that no encode made are shorter than this.
MaxRaw == 30

\* One bit of an EncryptionResult is flipped: in the iv, which is then
\* another iv; or in the ciphertext, in its body or in the 16 bytes of the
\* tag at its end, and the tag no longer belongs to the body.
FlipBit(er, part) ==
    IF part = "iv"
    THEN [er EXCEPT !.iv = IF @ = 1 THEN 2 ELSE 1]
    ELSE [er EXCEPT !.ciphertext.tag = FALSE]

\* test_encrypt_decrypt, for any key and message: encrypt_message.
Test_Encrypt ==
    /\ crypto_test.test = "start"
    /\ \E iv \in TestIVs :
          crypto_test' = [crypto_test EXCEPT
                             !.test = "encrypted",
                             !.result = Some(encrypt_message(crypto_test.message,
                                                             crypto_test.key, iv))]
    /\ UNCHANGED << confvars, smvars, connvars >>

\* result.ciphertext[0] ^= 0x01, for any bit of the result.
Test_FlipBit ==
    /\ crypto_test.test = "encrypted"
    /\ crypto_test.flipped = "none"
    /\ \E part \in {"ciphertext", "iv", "tag"} :
          crypto_test' = [crypto_test EXCEPT
                             !.flipped = part,
                             !.result = Some(FlipBit(unwrap(@), part))]
    /\ UNCHANGED << confvars, smvars, connvars >>

\* decrypt_message(&key, &result)
Test_Decrypt ==
    /\ crypto_test.test = "encrypted"
    /\ crypto_test' = [crypto_test EXCEPT
                          !.test = "decrypted",
                          !.plaintext = Some(decrypt_message(crypto_test.key,
                                                             unwrap(crypto_test.result)))]
    /\ UNCHANGED << confvars, smvars, connvars >>

\* test_encode_decode_encryption_result, for any result: encode.
Test_Encode ==
    /\ crypto_test.test = "encrypted"
    /\ crypto_test' = [crypto_test EXCEPT
                          !.test = "encoded",
                          !.encoded = Some(EncryptionResult_encode(unwrap(crypto_test.result)))]
    /\ UNCHANGED << confvars, smvars, connvars >>

\* decode is handed bytes that no encode made.
Test_Bytes ==
    /\ crypto_test.test = "start"
    /\ \E len \in 0..MaxRaw :
          crypto_test' = [crypto_test EXCEPT !.test = "encoded",
                                             !.encoded = Some(RawBytes(len))]
    /\ UNCHANGED << confvars, smvars, connvars >>

\* EncryptionResult::decode(&encoded)
Test_Decode ==
    /\ crypto_test.test = "encoded"
    /\ crypto_test' = [crypto_test EXCEPT
                          !.test = "decoded",
                          !.decoded = Some(EncryptionResult_decode(unwrap(crypto_test.encoded)))]
    /\ UNCHANGED << confvars, smvars, connvars >>

\* A test starts with a key and a message.
InitCrypto ==
    /\ InitConference(FALSE)
    /\ InitLoop
    /\ connection_manager = "running"
    /\ socket = << >>
    /\ server_response = 0
    /\ \E key \in TestKeys, message \in TestMessages :
          crypto_test = [test |-> "start", key |-> key, message |-> message,
                         flipped |-> "none", result |-> None, plaintext |-> None,
                         encoded |-> None, decoded |-> None]

NextCrypto ==
    \/ Test_Encrypt
    \/ Test_FlipBit
    \/ Test_Decrypt
    \/ Test_Encode
    \/ Test_Bytes
    \/ Test_Decode

SpecCrypto == InitCrypto /\ [][NextCrypto]_vars

\* ------------------------ conference_manager.rs (a manager started alone)

\* Managers constructed and started as test_start_conference_manager does:
\* every Sender of the event channel is gone, and the receivers of
\* message_sender and ui_event_sender are alive or have been dropped.
InitStart ==
    /\ wire = FALSE
    /\ \E n \in [Peers -> 0..NPeers], key \in [Peers -> {0, ConferenceKey}],
          ms \in [Peers -> BOOLEAN], us \in [Peers -> BOOLEAN] :
          cm = [p \in Peers |->
                   [ConferenceManager_new(1, n[p], key[p], p)
                        EXCEPT !.message_sender = ms[p], !.ui_event_sender = us[p]]]
    /\ task = [p \in Peers |-> "spawned"]
    /\ sm = [p \in Peers |-> "stopped"]
    /\ conn = [p \in Peers |-> "open"]
    /\ up = [p \in Peers |-> << >>]
    /\ down = [p \in Peers |-> << >>]
    /\ ui = [p \in Peers |-> << >>]
    /\ outsiders = 0
    /\ restructs = 0
    /\ contrib = [p \in Peers |-> 0]
    /\ sends = [p \in Peers |-> 0]
    /\ injected = 0
    /\ InitSM

\* conference_event_receiver.next() yields None: the while-let loop ends and
\* start_conference_manager returns Ok(()).
CM_Return(p) ==
    /\ task[p] = "running"
    /\ sm[p] # "running"
    /\ task' = [task EXCEPT ![p] = "stopped"]
    /\ UNCHANGED << smvars, connvars, testvars, wire, cm, sm, conn, up, down, ui, outsiders, restructs,
                    contrib, sends, injected >>

NextStart ==
    \/ \E p \in Peers : CM_Start(p)
    \/ \E p \in Peers : CM_Return(p)

SpecStart == InitStart /\ [][NextStart]_vars

\* -------------------- conference_manager.rs (the public keys as they arrive)

\* A conference of NPeers + 1 members, the last of whom runs a client that is
\* not modelled.  Every modelled member has started its manager and has the
\* members' PublicKey frames waiting in some order, its own among them or
\* not, some of them twice or not at all.
InitRing ==
    /\ wire = FALSE
    /\ cm = [p \in Peers |->
                start_public_key_exchange(
                    ConferenceManager_new(1, NPeers + 1, ConferenceKey, p), 1).self]
    /\ task = [p \in Peers |-> "running"]
    /\ sm = [p \in Peers |-> "running"]
    /\ conn = [p \in Peers |-> "open"]
    /\ up = [p \in Peers |-> << >>]
    /\ \E arrivals \in [Peers -> UNION {[1..n -> 1..(NPeers + 1)] : n \in NPeers..(NPeers + 1)}] :
          down = [p \in Peers |->
                     [i \in DOMAIN arrivals[p] |->
                         [ev |-> "IncomingMessage",
                          frame |-> ServerFrame_IncomingMessage(
                                        1,
                                        start_public_key_exchange(
                                            ConferenceManager_new(1, NPeers + 1, ConferenceKey,
                                                                  arrivals[p][i]),
                                            1).out[1].message)]]]
    /\ ui = [p \in Peers |-> << UIEvent_ConferenceJoined(1, NPeers + 1) >>]
    /\ outsiders = 1
    /\ restructs = 0
    /\ contrib = [p \in Peers |-> 0]
    /\ sends = [p \in Peers |-> 0]
    /\ injected = 0
    /\ InitSM

NextRing ==
    \/ \E r \in Peers : Deliver_IncomingMessage(r)
    \/ \E p \in Peers : Relay_Forward(p)

SpecRing == InitRing /\ [][NextRing]_vars

\* ------------- conference_manager.rs (a setup of NPeers + 1 honest members)

\* The members of a conference of NPeers + 1, every one with a modelled
\* client.
Group == 1..(NPeers + 1)

\* The manager of p as ConferenceRestructuring(NPeers + 1) leaves it, with
\* new_key for its part of the ephemeral key.
Restarted(p, new_key) ==
    initiate_conference_restructuring(
        ConferenceManager_new(1, NPeers + 1, ConferenceKey, p), NPeers + 1, new_key, 1)

\* Every member has handled the same ConferenceRestructuring(NPeers + 1) and
\* has pushed its PublicKey; nothing has reached the relay yet.
InitSetup ==
    /\ wire = FALSE
    /\ \E new_key \in [Group -> KeyValues] :
          /\ cm = [p \in Group |-> Restarted(p, new_key[p]).self]
          /\ up = [p \in Group |-> Restarted(p, new_key[p]).out]
          /\ contrib = new_key
    /\ task = [p \in Group |-> "running"]
    /\ sm = [p \in Group |-> "running"]
    /\ conn = [p \in Group |-> "open"]
    /\ down = [p \in Group |-> << >>]
    /\ ui = [p \in Group |-> << UIEvent_ConferenceRestructuring(1, NPeers + 1) >>]
    /\ outsiders = 0
    /\ restructs = 0
    /\ sends = [p \in Group |-> 0]
    /\ injected = 0
    /\ InitSM

\* The members the relay has in the conference.
Present == {q \in Group : task[q] = "running"}

\* The relay takes the next frame p wrote and queues it, as IncomingMessage,
\* for every other member, noting whose it is.
Relay_ForwardFrom(p) ==
    /\ up[p] # << >>
    /\ up' = [up EXCEPT ![p] = Tail(@)]
    /\ down' = [r \in Group |->
                   IF r # p /\ r \in Present
                   THEN down[r] \o << [ev |-> "IncomingMessage", from |-> p,
                                       frame |-> ServerFrame_IncomingMessage(
                                                     Head(up[p]).conference,
                                                     Head(up[p]).message)] >>
                   ELSE down[r]]
    /\ UNCHANGED << smvars, connvars, testvars, wire, cm, task, sm, conn, ui, outsiders,
                    restructs, contrib, sends, injected >>

\* The relay writes two frames of different senders to r in the other
\* order: it keeps the order of the frames of one sender only.
Relay_Overtake(r) ==
    /\ \E i \in 1..(Len(down[r]) - 1) :
          /\ down[r][i].from # down[r][i + 1].from
          /\ down' = [down EXCEPT ![r] =
                         [j \in 1..Len(@) |-> IF j = i THEN @[i + 1]
                                              ELSE IF j = i + 1 THEN @[i]
                                              ELSE @[j]]]
    /\ UNCHANGED << smvars, connvars, testvars, wire, cm, task, sm, conn, up, ui, outsiders,
                    restructs, contrib, sends, injected >>

NextSetup ==
    \/ \E p \in Group : Relay_ForwardFrom(p)
    \/ \E r \in Group : Relay_Overtake(r)
    \/ \E r \in Group : Deliver_IncomingMessage(r)

\* The relay has taken all that p wrote and p leaves: its state manager
\* drops the manager, and the relay announces ConferenceRestructuring(N - 1)
\* to the members that stay; what it has queued of p's frames it still
\* writes.
Server_Leave(p) ==
    /\ p \in Present
    /\ Cardinality(Present) > 2
    /\ up[p] = << >>
    /\ task' = [task EXCEPT ![p] = "stopped"]
    /\ down' = [r \in Group |->
                   IF r \in Present \ {p}
                   THEN down[r] \o << [ev |-> "ConferenceRestructuring", from |-> 0,
                                       n |-> Cardinality(Present) - 1] >>
                   ELSE << >>]
    /\ UNCHANGED << smvars, connvars, testvars, wire, cm, sm, conn, up, ui, outsiders,
                    restructs, contrib, sends, injected >>

NextEpochs ==
    \/ NextSetup
    \/ \E p \in Group : Server_Leave(p)
    \/ \E r \in Group : Deliver_ConferenceRestructuring(r)

\* One draw of the members' key parts.
InitEpochs == InitSetup /\ contrib = [p \in Group |-> 0]

\* The setup while members leave.
SpecEpochs == InitEpochs /\ [][NextEpochs]_vars

\* The relay forwards every frame it has got and every client handles every
\* event it is sent.
SpecSetup ==
    /\ InitSetup
    /\ [][NextSetup]_vars
    /\ \A p \in Group : WF_vars(Relay_ForwardFrom(p))
    /\ \A r \in Group : WF_vars(Deliver_IncomingMessage(r))

\* ------------------------------------------------------------ properties

Running(p) == task[p] = "running"

\* Nothing is on its way to p.
Idle(p) == down[p] = << >> /\ \A q \in Peers : up[q] = << >>

\* p has been told of every membership change the relay announced.
AtLatestEpoch(p) ==
    \A i \in 1..Len(down[p]) : down[p][i].ev # "ConferenceRestructuring"

\* Everything p pushed in this step.
Pushed(p) ==
    IF Len(up'[p]) > Len(up[p])
    THEN {up'[p][i] : i \in (Len(up[p]) + 1)..Len(up'[p])}
    ELSE {}

RECURSIVE XorContributions(_)
XorContributions(n) ==
    IF n = 0 THEN 0 ELSE XorBits(contrib[n], XorContributions(n - 1), KeyBits)

\* The key a pushed frame was sealed under, and what kind of frame it is.
FrameKey(m) == m.message.ciphertext.key
FrameDisc(m) == m.message.ciphertext.plain.disc

\* C1: when the conference consists of modelled peers only and all of them
\* work on the latest membership epoch, a peer that completed the
\* negotiation (it is in NormalOperation) holds the XOR of the contributions
\* of all the members for that epoch, hence the same key as every other
\* such peer.
C1_KeyIsXorOfContributions ==
    \A p \in Members :
        ( /\ outsiders = 0
          /\ \A q \in Members : Running(q) /\ AtLatestEpoch(q)
          /\ cm[p].state = "NormalOperation" )
        => unwrap(cm[p].ephemeral_encryption_key) = XorContributions(Cardinality(Members))

\* C3: the manager of a conference joined with one member, once started and
\* with nothing left to process, is in NormalOperation and has reported
\* ConferenceRestructuringFinished after ConferenceJoined(cid, 1).
C3_SoloJoinReachesNormalOperation ==
    ( /\ Running(1)
      /\ cm[1].number_of_peers = 1
      /\ \A i \in 1..Len(ui[1]) : ui[1][i].type # "ConferenceRestructuring"
      /\ Idle(1) )
    => /\ cm[1].state = "NormalOperation"
       /\ \E i, j \in 1..Len(ui[1]) :
             /\ i < j
             /\ ui[1][i] = UIEvent_ConferenceJoined(1, 1)
             /\ ui[1][j] = UIEvent_ConferenceRestructuringFinished(1)

\* C4: a Message (0x03) frame is only ever pushed by a manager that is in
\* NormalOperation, under the ephemeral key, and every setup frame
\* (PublicKey, EncryptionKeyPart) is sealed under initial_encryption_key,
\* whether or not an ephemeral key exists.
C4_FramesByState ==
    [][ \A p \in Peers : \A m \in Pushed(p) :
            /\ FrameDisc(m) = 3 =>
                  /\ cm[p].state = "NormalOperation"
                  /\ cm'[p].state = "NormalOperation"
                  /\ FrameKey(m) = unwrap(cm[p].ephemeral_encryption_key)
            /\ FrameDisc(m) \in {1, 2} => FrameKey(m) = cm[p].initial_encryption_key
      ]_vars

\* C4's cases: a text frame has been pushed, and a setup frame has been
\* pushed by a manager that already held an ephemeral key.
C4_Witness ==
    /\ \E p \in Peers : \E i \in 1..Len(up[p]) : FrameDisc(up[p][i]) = 3
    /\ \E p \in Peers : \E i \in 1..Len(up[p]) :
          /\ FrameDisc(up[p][i]) = 1
          /\ is_some(cm[p].ephemeral_encryption_key)

\* The step is r's state manager taking the next server event.
Delivery(r) == CanHandle(r) /\ down'[r] = Tail(down[r])

\* The relayed bytes at the head of r's stream.
HeadBody(r) == Head(down[r]).frame.body

\* bytes is a Message frame sealed under key whose content is a text signed
\* over ring by a member of ring.
SignedText(bytes, key, ring) ==
    /\ bytes.len > 0
    /\ bytes.ciphertext.key = key
    /\ bytes.ciphertext.iv = bytes.iv
    /\ bytes.ciphertext.tag
    /\ bytes.ciphertext.plain.len > 0
    /\ bytes.ciphertext.plain.disc = 3
    /\ LET w == bytes.ciphertext.plain.message.words
           n == Len(ring)
       IN /\ Len(w) >= n + 2
          /\ verify_message([challenge |-> w[1], responses |-> SubSeq(w, 2, n + 1),
                             key_image |-> w[n + 2]],
                            ring,
                            [words |-> SubSeq(w, n + 3, Len(w)),
                             tail |-> bytes.ciphertext.plain.message.tail])

\* The text of such a frame.
TextOf(bytes, ring) ==
    [words |-> SubSeq(bytes.ciphertext.plain.message.words, Len(ring) + 3,
                      Len(bytes.ciphertext.plain.message.words)),
     tail |-> bytes.ciphertext.plain.message.tail]

\* r's manager is restructuring to one peer more than its last ring has.
RestructuringToOneMore(r) ==
    /\ Running(r)
    /\ cm[r].state \in {"PublicKeyExchange", "EncryptionKeyNegotiation"}
    /\ is_some(cm[r].ephemeral_encryption_key)
    /\ is_some(cm[r].ring)
    /\ cm[r].number_of_peers = Len(unwrap(cm[r].ring)) + 1

\* C6: when a manager that is restructuring after ConferenceRestructuring(N+1)
\* is handed a Message frame sealed under its previous ephemeral key and
\* signed over its previous ring, its UI receives IncomingMessage with the
\* text and signature_valid = true.
C6_PreviousEpochMessageDelivered ==
    [][ \A r \in Peers :
          ( /\ Delivery(r)
            /\ Head(down[r]).ev = "IncomingMessage"
            /\ RestructuringToOneMore(r)
            /\ SignedText(HeadBody(r), unwrap(cm[r].ephemeral_encryption_key),
                          unwrap(cm[r].ring)) )
          => ui'[r] = ui[r] \o << UIEvent_IncomingMessage(
                                      1, TextOf(HeadBody(r), unwrap(cm[r].ring)), TRUE) >>
      ]_vars

\* The bytes open under a key r's manager holds.
Decrypts(r) ==
    /\ HeadBody(r).len > 0
    /\ is_some(decrypt_message_helper(cm[r], HeadBody(r)))

\* The relayed bytes are none of the frames a peer running this code sends
\* to a manager in this state: they do not open, or open to something that
\* is not a well-formed PublicKey, EncryptionKeyPart or Message, or to a
\* Message although no ring exists yet.
Malformed(r) ==
    \/ ~Decrypts(r)
    \/ LET plain == unwrap(decrypt_message_helper(cm[r], HeadBody(r)))
       IN \/ plain.len = 0
          \/ plain.disc \notin {1, 2, 3}
          \/ plain.disc = 1 /\ (plain.len # 1 + KEY_SIZE \/ ~is_some(decompress(plain.pubkey)))
          \/ plain.disc = 2 /\ plain.key_part.len # KEY_SIZE
          \/ plain.disc = 3 /\ plain.len < 5
          \/ plain.disc = 3 /\ plain.len >= 5 /\ plain.len # 5 + plain.message_length
          \/ plain.disc = 3 /\ plain.len >= 5 /\ plain.len = 5 + plain.message_length /\
                LET n == cm[r].number_of_peers
                    w == plain.message.words
                IN \/ ~is_some(cm[r].ring)
                   \/ Len(w) < n + 2
                   \/ \E i \in 1..(n + 1) : ~w[i].canon
                   \/ ~w[n + 2].decomp

\* C5: a manager handed a malformed byte string discards it: its task stays
\* alive, its state is unchanged and its UI receives nothing.
C5_MalformedFrameDiscarded ==
    [][ \A r \in Peers :
          ( /\ Delivery(r)
            /\ Head(down[r]).ev = "IncomingMessage"
            /\ Running(r)
            /\ Malformed(r) )
          => /\ task'[r] = "running"
             /\ ui'[r] = ui[r]
      ]_vars

\* The bytes open to a Message whose signature fields all parse for the
\* manager's number_of_peers, except possibly the key image, and whose
\* signature does not verify over the manager's ring.
UnverifiableText(r) ==
    /\ Decrypts(r)
    /\ LET plain == unwrap(decrypt_message_helper(cm[r], HeadBody(r)))
           n == cm[r].number_of_peers
       IN /\ plain.len >= 5
          /\ plain.disc = 3
          /\ plain.len = 5 + plain.message_length
          /\ Len(plain.message.words) >= n + 2
          /\ \A i \in 1..(n + 1) : plain.message.words[i].canon
          /\ ~( /\ is_some(cm[r].ring)
                /\ SignedText(HeadBody(r), HeadBody(r).ciphertext.key, unwrap(cm[r].ring)) )

\* C7: in a state that accepts Message frames, a manager handed a frame
\* that decrypts but whose signature does not verify passes exactly one
\* IncomingMessage with signature_valid = false to its UI.
C7_UnverifiedTextDelivered ==
    [][ \A r \in Peers :
          ( /\ Delivery(r)
            /\ Head(down[r]).ev = "IncomingMessage"
            /\ Running(r)
            /\ cm[r].state \in {"PublicKeyExchange", "EncryptionKeyNegotiation",
                                "NormalOperation"}
            /\ UnverifiableText(r) )
          => /\ Len(ui'[r]) = Len(ui[r]) + 1
             /\ ui'[r][Len(ui'[r])].type = "IncomingMessage"
             /\ ~ui'[r][Len(ui'[r])].signature_valid
      ]_vars

Handles(type) ==
    /\ sm_loop = "running"
    /\ server_events # << >>
    /\ Head(server_events).type = type
    /\ server_events' = Tail(server_events)

\* The packet the state manager hands to the connection manager in this step.
Dispatched ==
    IF Len(client_events') = Len(client_events) + 1
    THEN {client_events'[Len(client_events')]}
    ELSE {}

\* The reply at the head of the queue answers a forwarded text message and
\* bears its nonce and conference.
AnswersText ==
    LET e == Head(server_events)
    IN /\ e.request.type = "SendMessage"
       /\ is_some(e.request.message.message_id)
       /\ e.nonce = e.request.nonce
       /\ e.conference_id = e.request.message.conference

\* C8: when the state manager forwards a Message{conference: cid, message_id:
\* Some(msg_id)} it records SentEvent::SendMessage(cid, msg_id) under the
\* nonce it assigned, so that the server's MessageAccepted(nonce, cid) makes
\* it send the UI MessageAccepted(cid, msg_id) and the server's
\* MessageError(nonce, cid) makes it send MessageRejected(cid, msg_id).
C8_ForwardedMessageCorrelated ==
    [][/\ \A packet \in Dispatched :
             (packet.type = "SendMessage" /\ is_some(packet.message.message_id))
             => /\ packet.nonce \in DOMAIN sent_packets'
                /\ sent_packets'[packet.nonce]
                     = SentEvent_SendMessage(packet.message.conference,
                                             unwrap(packet.message.message_id))
       /\ (Handles("MessageAccepted") /\ AnswersText)
             => ui_events' = Append(ui_events,
                                    UIEvent_MessageAccepted(
                                        Head(server_events).conference_id,
                                        unwrap(Head(server_events).request.message.message_id)))
       /\ (Handles("MessageError") /\ AnswersText)
             => ui_events' = Append(ui_events,
                                    UIEvent_MessageRejected(
                                        Head(server_events).conference_id,
                                        unwrap(Head(server_events).request.message.message_id)))
      ]_vars

\* The server's replies that end a request.
TerminalReplies ==
    {"ConferenceCreated", "ConferenceJoinSalt", "ConferenceJoined", "ConferenceLeft",
     "MessageAccepted", "ConferenceCreationError", "ConferenceJoinSaltError",
     "ConferenceJoinError", "ConferenceLeaveError", "MessageError"}

\* The reply at the head of the queue bears the nonce of the request it
\* answers and, where the request names a conference, that conference.
BearsRequest ==
    LET e == Head(server_events)
    IN /\ e.nonce = e.request.nonce
       /\ CASE e.request.type = "CreateConference" -> TRUE
            [] e.request.type = "SendMessage" ->
                 e.conference_id = e.request.message.conference
            [] OTHER -> e.conference_id = e.request.conference_id

\* C9: for every kind of request, once the server's terminal reply bearing
\* the request's nonce and conference id has been processed, sent_packets
\* no longer holds that nonce.
C9_EntryRemovedOnTerminalReply ==
    [][\A type \in TerminalReplies :
          (Handles(type) /\ BearsRequest)
          => Head(server_events).nonce \notin DOMAIN sent_packets'
      ]_vars

\* C10: every nonce inserted into sent_packets is strictly greater than all
\* nonces inserted before it, the first is 1, and every live entry is under
\* a nonce of its own insertion.
C10_NoncesStrictlyIncrease ==
    /\ \A i, j \in DOMAIN insertions : i < j => insertions[i] < insertions[j]
    /\ insertions # << >> => insertions[1] = 1
    /\ \A n \in DOMAIN sent_packets : \E i \in DOMAIN insertions : insertions[i] = n

\* A join follow-up entry and an entry of a forwarded manager message are
\* live together, after UI requests.
C10_Witness ==
    /\ DOMAIN conferences # {}
    /\ message_queue = << >>
    /\ Len(insertions) >= 4
    /\ \E n1, n2 \in DOMAIN sent_packets :
          /\ n1 # n2
          /\ sent_packets[n1].type = "JoinConference"
          /\ sent_packets[n2].type = "CreateConference"

\* The variant of SentEvent each reply is the answer to.
RequestOf(type) ==
    CASE type \in {"ConferenceCreated", "ConferenceCreationError"} -> "CreateConference"
      [] type \in {"ConferenceJoinSalt", "ConferenceJoinSaltError"} -> "GetConferenceJoinSalt"
      [] type \in {"ConferenceJoined", "ConferenceJoinError"} -> "JoinConference"
      [] type \in {"ConferenceLeft", "ConferenceLeaveError"} -> "LeaveConference"
      [] type \in {"MessageAccepted", "MessageError"} -> "SendMessage"

\* The reply at the head of the queue bears a nonce not in sent_packets, or
\* the entry under its nonce is of another variant than the reply answers,
\* or names another conference than the reply.
Mismatched ==
    LET e == Head(server_events)
    IN \/ e.nonce \notin DOMAIN sent_packets
       \/ sent_packets[e.nonce].type # RequestOf(e.type)
       \/ /\ RequestOf(e.type) # "CreateConference"
          /\ sent_packets[e.nonce].conference_id # e.conference_id

\* C11: a server reply whose nonce is not in sent_packets, or whose recorded
\* SentEvent has a different shape or a different ConferenceId than the
\* reply, produces no UI event and no client event, leaves sent_packets and
\* the conferences table unchanged, and the state manager keeps running.
C11_MismatchedReplyDropped ==
    [][\A type \in TerminalReplies :
          (Handles(type) /\ Mismatched)
          => /\ UNCHANGED << ui_events, client_events, sent_packets, conferences >>
             /\ sm_loop' = "running"
      ]_vars

\* A reply to a pending request was dropped: nothing is in flight, the state
\* manager runs, and the request's entry is still in sent_packets.
C11_Witness ==
    /\ sm_loop = "running"
    /\ client_events = << >>
    /\ server_events = << >>
    /\ unsolicited > 0
    /\ \E n \in DOMAIN sent_packets : sent_packets[n].type = "LeaveConference"

\* The UI events the state manager or a manager sends in this step.
Emitted == {ui_events'[i] : i \in (Len(ui_events) + 1)..Len(ui_events')}

\* C12: a UI JoinConference(cid, password) is realised in two ordered
\* phases.  GetConferenceJoinSalt(n1, cid) is sent with the password kept in
\* the entry n1 and no manager spawned; JoinConference(n2, cid, hash) is sent
\* only while handling ConferenceJoinSalt(n1, cid, salt) for a pending
\* GetConferenceJoinSalt entry n1 of cid, which is consumed, with n2 > n1 and
\* hash the password hashed with the salt; a manager for cid is spawned and
\* the UI told ConferenceJoined(cid, N) only while handling
\* ConferenceJoined(n2, cid, N, enc_salt) for a pending JoinConference entry
\* n2 of cid, and then both happen.
C12_JoinInTwoPhases ==
    [][LET e == Head(server_events)
       IN /\ \A packet \in Dispatched :
                packet.type = "GetConferenceJoinSalt"
                => /\ packet.nonce \in DOMAIN sent_packets'
                   /\ sent_packets'[packet.nonce].type = "GetConferenceJoinSalt"
                   /\ sent_packets'[packet.nonce].conference_id = packet.conference_id
                   /\ conferences' = conferences
          /\ \A packet \in Dispatched :
                packet.type = "JoinConference"
                => /\ Handles("ConferenceJoinSalt")
                   /\ e.nonce \in DOMAIN sent_packets
                   /\ sent_packets[e.nonce].type = "GetConferenceJoinSalt"
                   /\ sent_packets[e.nonce].conference_id = e.conference_id
                   /\ e.nonce \notin DOMAIN sent_packets'
                   /\ packet.nonce > e.nonce
                   /\ packet.conference_id = e.conference_id
                   /\ packet.password_hash
                        = hash_password_with_salt(sent_packets[e.nonce].password,
                                                  e.join_salt)
                   /\ sent_packets'[packet.nonce]
                        = SentEvent_JoinConference(e.conference_id,
                                                   sent_packets[e.nonce].password)
          /\ \A cid \in ConferenceIds \cup {7} :
                LET spawned == cid \in DOMAIN conferences' \ DOMAIN conferences
                    told == \E ui_event \in Emitted :
                               /\ ui_event.type = "ConferenceJoined"
                               /\ ui_event.conference_id = cid
                    joined == /\ Handles("ConferenceJoined")
                              /\ e.conference_id = cid
                              /\ e.nonce \in DOMAIN sent_packets
                              /\ sent_packets[e.nonce].type = "JoinConference"
                              /\ sent_packets[e.nonce].conference_id = cid
                IN /\ (spawned \/ told) => joined
                   /\ joined => /\ cid \in DOMAIN conferences'
                                /\ UIEvent_ConferenceJoined(cid, e.number_of_peers)
                                      \in Emitted
      ]_vars

\* A join has gone through both phases: the manager is in the table, the UI
\* has been told, and both entries are consumed.
C12_Witness ==
    /\ DOMAIN conferences # {}
    /\ \E i \in DOMAIN ui_events : ui_events[i].type = "ConferenceJoined"
    /\ Len(insertions) >= 2
    /\ sent_packets = [n \in {} |-> 0]

\* C13: when the server answers a pending join with ConferenceJoinSaltError(n,
\* cid) or ConferenceJoinError(n, cid) matching the in-flight request, the UI
\* receives ConferenceJoinFailed(cid) and nothing else, the entry n is
\* removed, no manager is spawned and the conferences table is unchanged.
C13_JoinErrorFailsJoin ==
    [][\A type \in {"ConferenceJoinSaltError", "ConferenceJoinError"} :
          (Handles(type) /\ ~Mismatched)
          => LET e == Head(server_events)
             IN /\ ui_events' = Append(ui_events, UIEvent_ConferenceJoinFailed(e.conference_id))
                /\ e.nonce \notin DOMAIN sent_packets'
                /\ conferences' = conferences
                /\ message_queue' = message_queue
                /\ client_events' = client_events
      ]_vars

\* A join has failed in its second phase: two requests were sent, the UI was
\* told ConferenceJoinFailed, no entry and no manager is left.
C13_Witness ==
    /\ Len(insertions) = 2
    /\ ui_events = << UIEvent_ConferenceJoinFailed(1) >>
    /\ sent_packets = [n \in {} |-> 0]
    /\ DOMAIN conferences = {}
    /\ server_events = << >>

\* How many manager tasks of the conference have returned Ok(()).
ReturnedOf(f, cid) == IF cid \in DOMAIN f THEN f[cid] ELSE 0

\* C14: once a ConferenceLeft or ConferenceLeaveError reply matching a
\* pending LeaveConference(cid) is processed, cid is absent from the
\* conferences table and the manager that was behind it, if still in its
\* loop, has returned; and while a conference id is absent from the table, a
\* restructuring or an incoming message of the server for it, or a UI
\* SendMessage, reaches no manager: no manager changes, none pushes a Message
\* or returns, and the state manager keeps running.
C14_LeftConferenceIsGone ==
    [][LET e == Head(server_events)
       IN /\ \A type \in {"ConferenceLeft", "ConferenceLeaveError"} :
                (Handles(type) /\ ~Mismatched)
                => /\ e.conference_id \notin DOMAIN conferences'
                   /\ \A c \in DOMAIN conferences \ {e.conference_id} :
                         /\ c \in DOMAIN conferences'
                         /\ conferences'[c] = conferences[c]
                         /\ ReturnedOf(returned', c) = ReturnedOf(returned, c)
                   /\ (e.conference_id \in DOMAIN conferences
                       /\ ~conferences[e.conference_id].panicked)
                      => ReturnedOf(returned', e.conference_id)
                            = ReturnedOf(returned, e.conference_id) + 1
          /\ \A type \in {"ConferenceRestructuring", "IncomingMessage"} :
                (Handles(type) /\ e.conference_id \notin DOMAIN conferences)
                => /\ UNCHANGED << conferences, returned, message_queue, ui_events >>
                   /\ sm_loop' = "running"
          /\ (ui_sends' # ui_sends /\ DOMAIN conferences = {})
                => /\ UNCHANGED << conferences, returned, message_queue >>
                   /\ sm_loop' = "running"
      ]_vars

\* A conference was joined and left, its manager has returned, and the
\* server still sends an incoming message for it.
C14_Witness ==
    /\ sm_loop = "running"
    /\ DOMAIN conferences = {}
    /\ ReturnedOf(returned, 1) = 1
    /\ \E i \in DOMAIN ui_events : ui_events[i].type = "ConferenceLeft"
    /\ server_events # << >>
    /\ Head(server_events).type = "IncomingMessage"

\* The state manager's loop ends on its UI arm: it was running, it has
\* returned, and neither did it take a server event nor had the server's
\* events ended.
ReturnsOnUIArm ==
    /\ sm_loop = "running"
    /\ sm_loop' = "stopped"
    /\ server_events' = server_events
    /\ ~(connection_manager # "running" /\ server_events = << >>)

\* C15: when the state manager returns because of its UI (the UI action
\* channel is closed, or the UI asks to disconnect), it sends a Disconnect
\* client event to the connection manager before it drops its conferences
\* map and returns.
C15_ClosedUIChannelDisconnects ==
    [][ReturnsOnUIArm => ClientEvent_Disconnect \in Dispatched]_vars

\* The state manager of p addresses a ConferenceEvent to its manager: a
\* restructuring or an incoming message of the server, or a UI SendMessage.
Addressed(p) ==
    \/ Delivery(p)
    \/ /\ sm[p] = "running"
       /\ sends'[p] # sends[p]

\* C16: a manager task that fails never ends its state manager: in the step
\* in which the manager panics, and in every later step in which the state
\* manager addresses an event to the manager that has panicked, the state
\* manager keeps running.
C16_ManagerFailureIsolated ==
    [][\A p \in Peers :
          \/ task[p] = "running" /\ task'[p] = "panicked"
          \/ task[p] = "panicked" /\ Addressed(p)
          => sm'[p] = "running"
      ]_vars

\* C17: every server event the connection manager parses leaves the state
\* manager running, GeneralError and a HandshakeAcknowledged after the
\* handshake included; and an error reply that answers a pending request
\* sends the UI one event, the failure (or, for a leave, the end) of that
\* request.
C17_ServerEventsAreNotFatal ==
    [][/\ \A type \in TerminalReplies
                      \cup {"HandshakeAcknowledged", "ConferenceRestructuring",
                            "IncomingMessage", "GeneralError"} :
             Handles(type) => sm_loop' = "running"
       /\ \A type \in {"ConferenceCreationError", "ConferenceJoinSaltError",
                       "ConferenceJoinError", "ConferenceLeaveError", "MessageError"} :
             (Handles(type) /\ ~Mismatched)
             => /\ Len(ui_events') = Len(ui_events) + 1
                /\ ui_events'[Len(ui_events')].type
                      \in {"ConferenceCreateFailed", "ConferenceJoinFailed",
                           "ConferenceLeft", "MessageRejected"}
      ]_vars

\* No sender of the UI event channel is alive: the state manager's task has
\* ended and so has every manager's.
UIEventChannelClosed ==
    /\ sm_loop # "running"
    /\ DOMAIN conferences = {}

TakesClientEvent ==
    /\ connection_manager = "running"
    /\ client_events # << >>
    /\ client_events' = Tail(client_events)

\* C20: when the connection manager takes a Disconnect client event it
\* writes the discriminator 0x06 and returns Ok; any other client event it
\* writes and goes on; when it finds the client-event channel closed and
\* empty it returns Ok and writes nothing; it returns Ok in no other way;
\* and once it has returned, or once 0x06 is written, nothing more is
\* written to the socket.
C20_DisconnectEndsConnection ==
    [][/\ TakesClientEvent
          => IF Head(client_events).type = "Disconnect"
             THEN /\ socket' = Append(socket, << [width |-> 1, value |-> 6] >>)
                  /\ connection_manager' = "Ok"
             ELSE /\ Len(socket') = Len(socket) + 1
                  /\ connection_manager' = "running"
       /\ (connection_manager = "running" /\ connection_manager' = "Ok"
           /\ ~TakesClientEvent)
          => /\ sm_loop # "running"
             /\ client_events = << >>
             /\ socket' = socket
       /\ (connection_manager # "running" \/ (socket # << >> /\ socket[Len(socket)][1].value = 6))
          => /\ socket' = socket
             /\ connection_manager' = connection_manager
      ]_vars

\* A request and then a Disconnect were written, and the connection manager
\* has returned Ok.
C20_Witness ==
    /\ connection_manager = "Ok"
    /\ Len(socket) >= 2
    /\ socket[Len(socket)][1].value = 6
    /\ client_events = << >>

\* C19: reading an IncomingMessage frame (cid, len, ciphertext[len]) the
\* connection manager consumes the whole body, so that the stream stands at
\* the next discriminator, and the ServerEvent::IncomingMessage it emits
\* names the frame's conference and carries exactly the len bytes of the
\* frame's ciphertext.
C19_IncomingMessageReadWhole ==
    [][\A r \in Peers :
          (Delivery(r) /\ Head(down[r]).ev = "IncomingMessage")
          => LET frame == Head(down[r]).frame
                 event == read_server_event_IncomingMessage(frame)
             IN /\ event.conference_id = frame.conference_id
                /\ event.message.len = frame.message_length
                /\ event.message = frame.body
                /\ conn'[r] = "open"
      ]_vars

\* C21: a conference manager whose event channel has no live sender makes
\* its first public-key broadcast, finds the channel closed and returns
\* Ok(()): its task never panics, whether or not the receivers of its
\* message and UI-event channels are still alive.
C21_ClosedChannelManagerReturns ==
    \A p \in Peers : sm[p] # "running" => task[p] # "panicked"

\* The SendMessage frames among the frames written to a socket.
SendMessageFrames(sock) == SelectSeq(sock, LAMBDA f : f[1].value = 5)

\* The SendMessage events among the client events not yet written.
SendMessageEvents(events) == SelectSeq(events, LAMBDA e : e.type = "SendMessage")

\* The conference and the bytes of every framed message the managers have
\* emitted: those written to the socket, then those dispatched to the
\* connection manager, then those waiting for the state manager.
Outbound(sock, events, queue) ==
    [i \in 1..Len(SendMessageFrames(sock)) |->
        << SendMessageFrames(sock)[i][3].value, SendMessageFrames(sock)[i][5].value >>]
    \o [i \in 1..Len(SendMessageEvents(events)) |->
           << SendMessageEvents(events)[i].message.conference,
              SendMessageEvents(events)[i].message.message >>]
    \o [i \in 1..Len(queue) |-> << queue[i].conference, queue[i].message >>]

\* The nonces of the messages dispatched, written or not, in that order.
OutboundNonces(sock, events) ==
    [i \in 1..Len(SendMessageFrames(sock)) |-> SendMessageFrames(sock)[i][2].value]
    \o [i \in 1..Len(SendMessageEvents(events)) |-> SendMessageEvents(events)[i].nonce]

IsPrefix(a, b) == Len(a) <= Len(b) /\ \A i \in 1..Len(a) : a[i] = b[i]

\* C22: outbound order is preserved end to end.  The messages emitted so far
\* stand in one line, socket first, then the connection manager's channel,
\* then the state manager's: a step only adds newly emitted messages at its
\* end, so a message emitted earlier is dispatched earlier and written
\* earlier, and the nonces along the dispatched part strictly increase.
C22_OutboundOrderPreserved ==
    [][/\ IsPrefix(Outbound(socket, client_events, message_queue),
                   Outbound(socket', client_events', message_queue'))
       /\ \A i, j \in 1..Len(OutboundNonces(socket', client_events')) :
             i < j => OutboundNonces(socket', client_events')[i]
                        < OutboundNonces(socket', client_events')[j]
      ]_vars

\* Two different messages have been written to the socket, one after the
\* other.
C22_Witness ==
    /\ Len(SendMessageFrames(socket)) >= 2
    /\ SendMessageFrames(socket)[1][5].value # SendMessageFrames(socket)[2][5].value

\* p has derived a ring from the keys it has collected.
RingDerived(p) ==
    /\ cm[p].state \in {"PublicKeyExchangeFinished", "EncryptionKeyNegotiation",
                        "EncryptionKeyNegotiationFinished", "NormalOperation"}
    /\ is_some(cm[p].ring)

\* The compressed keys of p's ring, in the ring's order.
CompressedRing(p) == [i \in 1..Len(unwrap(cm[p].ring)) |-> compress(unwrap(cm[p].ring)[i])]

\* C23: two peers that complete the public-key exchange with the same set
\* of keys derive the same ring.  The ring holds each collected key once, in
\* ascending order of the compressed keys, whatever the order of arrival and
\* however often a key, the peer's own included, arrived.
C23_RingsIdentical ==
    /\ \A p \in Peers :
          RingDerived(p)
          => /\ Len(CompressedRing(p)) = Cardinality(cm[p].unsorted_public_keys)
             /\ {CompressedRing(p)[i] : i \in 1..Len(CompressedRing(p))}
                   = cm[p].unsorted_public_keys
             /\ \A i, j \in 1..Len(CompressedRing(p)) :
                   i < j => CompressedRing(p)[i] < CompressedRing(p)[j]
             /\ CompressedRing(p)[unwrap(cm[p].ring_personal_key_index) + 1]
                   = compress(cm[p].personal_public_key)
    /\ \A p, q \in Peers :
          (/\ RingDerived(p) /\ RingDerived(q)
           /\ cm[p].unsorted_public_keys = cm[q].unsorted_public_keys)
          => cm[p].ring = cm[q].ring

\* Two peers have each derived the ring of all NPeers + 1 members.
C23_Witness ==
    /\ \A p \in {1, 2} : RingDerived(p) /\ Len(unwrap(cm[p].ring)) = NPeers + 1
    /\ cm[1].ring = cm[2].ring

\* r's manager, negotiating the ephemeral key, is handed bytes that open to
\* an EncryptionKeyPart of KEY_SIZE bytes.
FoldsPart(r) ==
    /\ Delivery(r)
    /\ Head(down[r]).ev = "IncomingMessage"
    /\ Running(r)
    /\ cm[r].state = "EncryptionKeyNegotiation"
    /\ Decrypts(r)
    /\ LET plain == unwrap(decrypt_message_helper(cm[r], HeadBody(r)))
       IN plain.len > 0 /\ plain.disc = 2 /\ plain.key_part.len = KEY_SIZE

\* r's manager is handed a ConferenceRestructuring.
Restructures(r) ==
    /\ Delivery(r)
    /\ Head(down[r]).ev = "ConferenceRestructuring"
    /\ Running(r)

\* C24: the key that becomes the active ephemeral key is the XOR of exactly
\* number_of_peers contributions.  On entry and on every restructuring the
\* count of parts is 0 and new_ephemeral_key is the local contribution; a
\* received part of 32 bytes, handed over during the key negotiation, is
\* XORed in and counted once; nothing else (a part of another length
\* included) changes the key in the making or the count; and the key
\* becomes active exactly in the step that folds part number
\* number_of_peers - 1, with the value just folded.
C24_KeyFoldsExactlyNParts ==
    [][\A r \in Peers :
          /\ FoldsPart(r)
             => /\ cm'[r].new_ephemeral_key
                      = XorBits(cm[r].new_ephemeral_key,
                                unwrap(decrypt_message_helper(cm[r], HeadBody(r))).key_part.value,
                                KeyBits)
                /\ cm'[r].ephemeral_key_parts = cm[r].ephemeral_key_parts + 1
          /\ Restructures(r)
             => /\ cm'[r].ephemeral_key_parts = 0
                /\ cm'[r].new_ephemeral_key = contrib'[r]
          /\ (~FoldsPart(r) /\ ~Restructures(r))
             => /\ cm'[r].new_ephemeral_key = cm[r].new_ephemeral_key
                /\ cm'[r].ephemeral_key_parts = cm[r].ephemeral_key_parts
          /\ cm'[r].ephemeral_key_parts = 0 => cm'[r].new_ephemeral_key = contrib'[r]
          /\ cm'[r].ephemeral_encryption_key # cm[r].ephemeral_encryption_key
             => /\ FoldsPart(r)
                /\ cm'[r].ephemeral_key_parts = cm'[r].number_of_peers - 1
                /\ cm'[r].ephemeral_encryption_key = Some(cm'[r].new_ephemeral_key)
      ]_vars

\* A manager of a two-member conference whose own contribution is 1 has made
\* the XOR with the other member's part its active key.
C24_Witness ==
    \E p \in Peers :
        /\ cm[p].state = "NormalOperation"
        /\ cm[p].number_of_peers = 2
        /\ cm[p].ephemeral_key_parts = 1
        /\ contrib[p] = 1
        /\ is_some(cm[p].ephemeral_encryption_key)

\* C25: in every state of a conference manager (as constructed, after any
\* inbound PublicKey, after any restructuring) its own compressed public
\* key is one of the keys in unsorted_public_keys.
C25_OwnKeyCollected ==
    \A p \in Peers : compress(cm[p].personal_public_key) \in cm[p].unsorted_public_keys

\* A manager that had collected the keys of a ring is restructuring: its
\* set of keys has been cleared and holds its own key alone.
C25_Witness ==
    \E p \in Peers :
        /\ Running(p)
        /\ is_some(cm[p].ring)
        /\ cm[p].state = "PublicKeyExchange"
        /\ cm[p].unsorted_public_keys = {compress(cm[p].personal_public_key)}

\* The bytes decode to an EncryptionResult that opens under key.
OpensUnder(key, bytes) ==
    /\ bytes.len >= IV_SIZE + TAG_SIZE
    /\ bytes.ciphertext.key = key
    /\ bytes.ciphertext.iv = bytes.iv
    /\ bytes.ciphertext.tag

\* r's manager holds an ephemeral key besides the initial one and is handed
\* a ciphertext.
TriesBothKeys(r) ==
    /\ CanHandle(r)
    /\ Head(down[r]).ev = "IncomingMessage"
    /\ Running(r)
    /\ is_some(cm[r].ephemeral_encryption_key)
    /\ HeadBody(r).len > 0

\* C26: a manager that holds both keys accepts an inbound ciphertext if
\* either key opens it, in NormalOperation and in every setup state alike;
\* if neither does, the frame is discarded: the manager is unchanged and
\* alive, its UI receives nothing and it pushes nothing.
C26_EitherKeyDecrypts ==
    [][\A r \in Peers :
          (TriesBothKeys(r) /\ Delivery(r))
          => IF \/ OpensUnder(cm[r].initial_encryption_key, HeadBody(r))
                \/ OpensUnder(unwrap(cm[r].ephemeral_encryption_key), HeadBody(r))
             THEN decrypt_message_helper(cm[r], HeadBody(r))
                     = Some(HeadBody(r).ciphertext.plain)
             ELSE /\ decrypt_message_helper(cm[r], HeadBody(r)) = None
                  /\ cm'[r] = cm[r]
                  /\ task'[r] = "running"
                  /\ ui'[r] = ui[r]
                  /\ up'[r] = up[r]
      ]_vars

\* A manager that is restructuring and still holds the ephemeral key of the
\* epoch before is about to be handed a setup frame, sealed under the initial
\* key.
C26_Witness ==
    \E r \in Peers :
        /\ TriesBothKeys(r)
        /\ cm[r].state \in {"PublicKeyExchange", "EncryptionKeyNegotiation"}
        /\ OpensUnder(cm[r].initial_encryption_key, HeadBody(r))
        /\ ~OpensUnder(unwrap(cm[r].ephemeral_encryption_key), HeadBody(r))

\* The state manager of p, which has a manager registered for the
\* conference, takes a UIAction::SendMessage.
TakesSendMessage(p) ==
    /\ sm[p] = "running"
    /\ task[p] \in {"running", "panicked", "stopped"}
    /\ sends'[p] = sends[p] + 1

\* C27: a UI SendMessage for a conference whose manager is in any state
\* other than NormalOperation cannot be sent: the UI receives exactly one
\* MessageError with the conference and the message id, and no frame is
\* pushed for it, neither now nor once the setup completes.
C27_UnsendableMessageRejected ==
    [][\A p \in Peers :
          (TakesSendMessage(p) /\ cm[p].state # "NormalOperation")
          => /\ ui'[p] = Append(ui[p], UIEvent_MessageError(1, sends'[p]))
             /\ up'[p] = up[p]
             /\ cm'[p] = cm[p]
      ]_vars

\* C28: processing ConferenceRestructuring(new_N) sets number_of_peers to
\* new_N, resets unsorted_public_keys to the own key alone, regenerates
\* new_ephemeral_key, resets the count of received parts to 0, moves to
\* PublicKeyExchange and broadcasts the own PublicKey (one frame, sealed
\* under the initial key), and leaves ring, ring_personal_key_index,
\* ephemeral_encryption_key, the personal key pair and
\* initial_encryption_key as they were.
C28_RestructuringFrame ==
    [][\A r \in Peers :
          Restructures(r)
          => /\ task'[r] = "running"
             /\ cm'[r].number_of_peers = Head(down[r]).n
             /\ cm'[r].unsorted_public_keys = {compress(cm[r].personal_public_key)}
             /\ cm'[r].new_ephemeral_key = contrib'[r]
             /\ cm'[r].ephemeral_key_parts = 0
             /\ cm'[r].state = "PublicKeyExchange"
             /\ Len(up'[r]) = Len(up[r]) + 1
             /\ SubSeq(up'[r], 1, Len(up[r])) = up[r]
             /\ LET sent == up'[r][Len(up'[r])]
                IN /\ sent.conference = cm[r].conference_id
                   /\ sent.message_id = None
                   /\ FrameKey(sent) = cm[r].initial_encryption_key
                   /\ FrameDisc(sent) = 1
                   /\ sent.message.ciphertext.plain.pubkey
                         = compress(cm[r].personal_public_key)
             /\ cm'[r].ring = cm[r].ring
             /\ cm'[r].ring_personal_key_index = cm[r].ring_personal_key_index
             /\ cm'[r].ephemeral_encryption_key = cm[r].ephemeral_encryption_key
             /\ cm'[r].personal_private_key = cm[r].personal_private_key
             /\ cm'[r].personal_public_key = cm[r].personal_public_key
             /\ cm'[r].initial_encryption_key = cm[r].initial_encryption_key
             /\ cm'[r].conference_id = cm[r].conference_id
      ]_vars

\* A manager that was in NormalOperation in a ring of two has been
\* restructured to three peers: it collects keys again and still holds the
\* ring and the ephemeral key of the epoch before.
C28_Witness ==
    \E r \in Peers :
        /\ Running(r)
        /\ cm[r].state = "PublicKeyExchange"
        /\ cm[r].number_of_peers = 3
        /\ cm[r].ephemeral_key_parts = 0
        /\ Cardinality(cm[r].unsorted_public_keys) = 1
        /\ is_some(cm[r].ring)
        /\ Len(unwrap(cm[r].ring)) = 2
        /\ is_some(cm[r].ephemeral_encryption_key)

\* C29: the state manager routes by conference id: a ConferenceRestructuring
\* of the server for a conference with a registered manager is forwarded to
\* that manager and to the UI, which gets ConferenceRestructuring(cid, N) next,
\* and an IncomingMessage is forwarded to that manager only; after either the
\* state manager goes on to the event that follows.
C29_RoutedToManagerAndUI ==
    [][\A r \in Peers :
          Delivery(r)
          => /\ sm'[r] = "running"
             /\ Head(down[r]).ev = "ConferenceRestructuring"
                => /\ Len(ui'[r]) > Len(ui[r])
                   /\ SubSeq(ui'[r], 1, Len(ui[r]) + 1)
                         = Append(ui[r], UIEvent_ConferenceRestructuring(1, Head(down[r]).n))
             /\ Head(down[r]).ev = "IncomingMessage"
                => \A i \in (Len(ui[r]) + 1)..Len(ui'[r]) :
                      ui'[r][i].type # "ConferenceRestructuring"
      ]_vars

\* C30: every SendMessage frame written to the socket is laid out as the
\* discriminator 0x05 in one byte, the nonce, the conference id and the
\* length in four bytes each, then the ciphertext of that length: the length
\* field takes exactly 4 bytes and the whole frame 13 + len bytes.
C30_SendMessageFrameLayout ==
    \A i \in 1..Len(SendMessageFrames(socket)) :
        LET f == SendMessageFrames(socket)[i]
            len == f[5].value.len
        IN /\ Len(f) = 5
           /\ << f[1].width, f[2].width, f[3].width, f[4].width, f[5].width >>
                 = << 1, 4, 4, 4, len >>
           /\ f[4].value = len
           /\ f[1].width + f[2].width + f[3].width + f[4].width + f[5].width = 13 + len

\* C31: the handshake succeeds only if the byte the server answers the
\* banner with is 0x00; on any other byte, or the end of the stream, the
\* connection manager returns an error, and it has sent no ServerEvent and
\* written no client event: the banner is all the socket has got, then and
\* ever after.
C31_HandshakeNeedsAcknowledgement ==
    [][/\ connection_manager = "handshake"
          => /\ server_events = << >> /\ server_events' = << >>
             /\ connection_manager' = "handshake" => socket' = socket
             /\ connection_manager' # "handshake"
                => /\ socket' = Append(socket, << PROTOCOL_HEADER >>)
                   /\ connection_manager' = "running" => server_response' = 0
                   /\ server_response' # 0 => connection_manager' = "Err"
                   /\ connection_manager' \in {"running", "Err"}
       /\ connection_manager = "Err"
          => /\ connection_manager' = "Err"
             /\ socket' = socket
             /\ Len(server_events') <= Len(server_events)
      ]_vars

\* The server answered the banner with another byte while a request of the
\* UI was waiting to be written: the connection manager has returned the
\* error and the socket has got the banner alone.
C31_Witness ==
    /\ connection_manager = "Err"
    /\ server_response # 0
    /\ socket = << << PROTOCOL_HEADER >> >>
    /\ client_events # << >>
    /\ server_events = << >>

Delivered == \A p \in Group : up[p] = << >> /\ down[p] = << >>

\* C34: when all N >= 2 members restart the exchange on the same
\* ConferenceRestructuring(N) and the relay delivers every frame, keeping the
\* order of the frames of each sender, every member ends in NormalOperation
\* and has told its UI ConferenceRestructuringFinished.  A fair relay
\* delivers each of the finitely many frames, so a member that is not there
\* when all frames are delivered stays in PublicKeyExchange or
\* EncryptionKeyNegotiation for ever.
C34_SetupCompletes ==
    Delivered
    => \A p \in Group :
          /\ cm[p].state = "NormalOperation"
          /\ \E i \in 1..Len(ui[p]) : ui[p][i] = UIEvent_ConferenceRestructuringFinished(1)

\* p works on the membership the relay has now: it stays, no announcement
\* is waiting for it, and it counts as many peers as there are.
OnCurrentMembership(p) ==
    /\ p \in Present
    /\ \A i \in 1..Len(down[p]) : down[p][i].ev # "ConferenceRestructuring"
    /\ cm[p].number_of_peers = Cardinality(Present)

\* C35: when an honest peer has completed the public-key exchange of an
\* epoch with N members, its ring is made of exactly the public keys of the
\* N members of that epoch: a PublicKey that a peer broadcast before it left
\* is not counted and is not in the ring, however deliveries and
\* restructurings interleave.
C35_RingOfCurrentMembers ==
    \A p \in Group :
        (/\ OnCurrentMembership(p)
         /\ cm[p].state \in {"EncryptionKeyNegotiation", "NormalOperation"})
        => {unwrap(cm[p].ring)[i] : i \in 1..Len(unwrap(cm[p].ring))}
              = {BasepointMul(q) : q \in Present}

\* generate_ephemeral_key has run in the manager of p: only
\* initiate_conference_restructuring calls it, and the state manager reports
\* ConferenceRestructuring to the UI whenever it has the manager restructure.
HasGeneratedKey(p) ==
    \E i \in 1..Len(ui[p]) : ui[p][i].type = "ConferenceRestructuring"

\* C36: the EncryptionKeyPart a peer broadcasts is a key it has generated
\* from randomness, in its first epoch as after a restructuring: a manager
\* that completes the public-key exchange and broadcasts its part has run
\* generate_ephemeral_key before, so the part is not the constant the
\* constructor put in new_ephemeral_key.
C36_FirstPartIsGenerated ==
    [][\A r \in Peers :
          (/\ cm[r].state = "PublicKeyExchange"
           /\ cm'[r].state = "EncryptionKeyNegotiation")
          => HasGeneratedKey(r)]_vars

\* The manager of r completes the public-key exchange in this step.
CompletesExchange(r) ==
    /\ cm[r].state = "PublicKeyExchange"
    /\ cm'[r].state # "PublicKeyExchange"
    /\ cm'[r].number_of_peers = cm[r].number_of_peers

\* What r's manager pushed to message_sender in this step, opened.
PushedNow(r) ==
    [i \in 1..(Len(up'[r]) - Len(up[r])) |->
        read_message(cm'[r], up'[r][Len(up[r]) + i].message).value]

\* C37: the public-key exchange completes exactly when the set of the
\* distinct keys collected, the own key included, first has N members: a
\* manager waiting in PublicKeyExchange holds fewer than N keys, and the
\* step that completes the exchange brings the set from fewer than N keys
\* to N, leaves a ring of those N keys in strictly ascending order of their
\* compressed encoding with the own key at ring_personal_key_index, the
\* state EncryptionKeyNegotiation, and pushes exactly one frame, an
\* EncryptionKeyPart.
C37_ExchangeCompletesAtN ==
    [][\A r \in Peers :
          /\ (Running(r)' /\ cm'[r].state = "PublicKeyExchange")
             => Cardinality(cm'[r].unsorted_public_keys) < cm'[r].number_of_peers
          /\ CompletesExchange(r)
             => /\ Cardinality(cm[r].unsorted_public_keys) < cm[r].number_of_peers
                /\ Cardinality(cm'[r].unsorted_public_keys) = cm[r].number_of_peers
                /\ cm'[r].state = "EncryptionKeyNegotiation"
                /\ Len(unwrap(cm'[r].ring)) = cm[r].number_of_peers
                /\ {compress(unwrap(cm'[r].ring)[i]) : i \in 1..cm[r].number_of_peers}
                      = cm'[r].unsorted_public_keys
                /\ \A i, j \in 1..cm[r].number_of_peers :
                      i < j => compress(unwrap(cm'[r].ring)[i])
                                  < compress(unwrap(cm'[r].ring)[j])
                /\ unwrap(cm'[r].ring)[unwrap(cm'[r].ring_personal_key_index) + 1]
                      = cm[r].personal_public_key
                /\ Len(PushedNow(r)) = 1
                /\ unwrap(PushedNow(r)[1]).type = "EncryptionKeyPart"]_vars

\* The next thing r's manager is handed opens to a frame of the given
\* discriminant (1 PublicKey, 2 EncryptionKeyPart) while it is in one of the
\* given states.
HeadOpensTo(r, disc, states) ==
    /\ CanHandle(r)
    /\ Head(down[r]).ev = "IncomingMessage"
    /\ Running(r)
    /\ cm[r].state \in states
    /\ Decrypts(r)
    /\ LET plain == unwrap(decrypt_message_helper(cm[r], HeadBody(r)))
       IN plain.len > 0 /\ plain.disc = disc

\* r's manager is handed a frame of a sub-protocol it is not in.
Unexpected(r) ==
    \/ HeadOpensTo(r, 2, {"PublicKeyExchange"})
    \/ HeadOpensTo(r, 1, {"EncryptionKeyNegotiation", "NormalOperation"})

\* C38: a frame of a sub-protocol the manager is not in changes nothing.  An
\* EncryptionKeyPart handed over in PublicKeyExchange, and a PublicKey handed
\* over in EncryptionKeyNegotiation or NormalOperation, leave the state, the
\* set of keys, the ring, the key in the making, the count of parts and
\* every other field as they were, and nothing is pushed to the relay or to
\* the UI.
C38_UnexpectedFrameIgnored ==
    [][\A r \in Peers :
          (Unexpected(r) /\ down'[r] = Tail(down[r]))
          => /\ cm'[r] = cm[r]
             /\ task'[r] = task[r]
             /\ up'[r] = up[r]
             /\ ui'[r] = ui[r]]_vars

\* One manager is about to be handed an EncryptionKeyPart in
\* PublicKeyExchange, having collected a key of another member already, and
\* the other a PublicKey during the key negotiation.
C38_Witness ==
    \E r, q \in Peers :
        /\ HeadOpensTo(r, 2, {"PublicKeyExchange"})
        /\ Cardinality(cm[r].unsorted_public_keys) = 2
        /\ HeadOpensTo(q, 1, {"EncryptionKeyNegotiation"})

\* The next thing r's manager is handed is read as a Message frame, which
\* process_text_message passes to check_message_signature.
ReachesSignatureCheck(r) ==
    /\ CanHandle(r)
    /\ Head(down[r]).ev = "IncomingMessage"
    /\ Running(r)
    /\ cm[r].state \in {"PublicKeyExchange", "EncryptionKeyNegotiation", "NormalOperation"}
    /\ LET read == read_message(cm[r], HeadBody(r))
       IN is_some(read.value) /\ unwrap(read.value).type = "Message"

\* What the assertions of process_outbound_message, send_message and
\* sign_message ask for.
FullySetUp(self) ==
    /\ is_some(self.ring)
    /\ is_some(self.ring_personal_key_index)
    /\ is_some(self.ephemeral_encryption_key)

\* C39: a manager in NormalOperation has its ring, its index in the ring
\* and its ephemeral key, and a manager that is handed a Message frame, in
\* whatever state, has a ring to check the signature against.
C39_RingWhereNeeded ==
    \A r \in Peers :
        Running(r)
        => /\ cm[r].state = "NormalOperation" => FullySetUp(cm[r])
           /\ ReachesSignatureCheck(r) => is_some(cm[r].ring)

\* The UIEvents that answer a UIAction::CreateConference.
CreateAnswers ==
    {i \in 1..Len(ui_events) :
        ui_events[i].type \in {"ConferenceCreated", "ConferenceCreateFailed"}}

\* C40: the UI is told ConferenceCreated or ConferenceCreateFailed only in
\* answer to a CreateConference it issued, whatever nonce the server's reply
\* carries, the nonce of a forwarded SendMessage frame included: there are
\* never more such events than CreateConference actions handled, so a UI
\* that has issued none has received none.
C40_CreatedOnlyOnRequest == Cardinality(CreateAnswers) = 0

====
